---- MODULE Spec2Model ----
(***************************************************************************)
(* Model of the search & recommendation index of shopping-assistant:       *)
(*   ProductIndex  (indexing/product_index.py)                             *)
(*   SearchEngine  (indexing/search_engine.py)                             *)
(*   DataPreprocessor.process_dataset (indexing/data_preprocessor.py)      *)
(*                                                                         *)
(* Texts are sequences of word tokens.  Real-valued scores are kept in     *)
(* fixed point: a tf-idf weight is an integer in 0..Scale, a cosine        *)
(* similarity an integer in 0..Scale*Scale (no division after the dot      *)
(* product, so a positive similarity never rounds to 0).  Prices are       *)
(* integer pence.  Row positions, labels and product ids are 0-based as in *)
(* pandas; TLA+ sequences are 1-based, so position p is element p + 1.     *)
(***************************************************************************)
EXTENDS Integers, Sequences, FiniteSets, TLC

\* ------------------------------------------------------------------ bounds
\* Longest catalog (number of rows) the index-level specification draws.
MaxRows == 4
\* --------------------------------------------------------- program constants
\* TfidfVectorizer(max_features=5000, ngram_range=(1, 2), min_df=2, max_df=0.8)
max_features == 5000
min_df == 2
\* max_df = 0.8 kept as the fraction MaxDfNum / MaxDfDen
MaxDfNum == 4
MaxDfDen == 5
\* feature_weights 0.6 / 0.2 / 0.2, in tenths
W_text == 6
W_price == 2
W_category == 2

\* Fixed-point scale of a tf-idf weight.
Scale == 10 * 10 * 10

\* ------------------------------------------------------------ small helpers
Range(s) == {s[i] : i \in DOMAIN s}

Reverse(s) == [i \in 1..Len(s) |-> s[Len(s) + 1 - i]]

Min2(a, b) == IF a <= b THEN a ELSE b

Max2(a, b) == IF a >= b THEN a ELSE b

RECURSIVE SumSeq(_)
SumSeq(s) == IF s = <<>> THEN 0 ELSE Head(s) + SumSeq(Tail(s))

RECURSIVE SumFn(_, _)
\* Sum of f[x] over the finite set S.
SumFn(f, S) ==
    IF S = {} THEN 0
    ELSE LET x == CHOOSE y \in S : TRUE IN f[x] + SumFn(f, S \ {x})

SumOver(S, F(_)) == SumFn([x \in S |-> F(x)], S)

RECURSIVE SqrtSearch(_, _, _)
\* Largest r in lo..hi with r * r <= n (lo * lo <= n assumed).
SqrtSearch(n, lo, hi) ==
    IF lo >= hi THEN lo
    ELSE LET mid == (lo + hi + 1) \div 2
         IN IF mid * mid <= n THEN SqrtSearch(n, mid, hi)
                              ELSE SqrtSearch(n, lo, mid - 1)

\* (46340 is the largest integer whose square fits a 32-bit integer.)
ISqrt(n) == SqrtSearch(n, 0, Min2(n, 46340))

\* floor(a * b / c) without the intermediate product a * b (c > 0).
MulDiv(a, b, c) == (a \div c) * b + ((a % c) * b) \div c

\* a[-k:] of Python for a sequence a and an integer k:
\* k > 0 the last k elements (all of them when k >= len), k = 0 the whole
\* sequence (a[-0:] is a[0:]), k < 0 the elements from position |k| on.
PySliceLast(a, k) ==
    LET n == Len(a)
        from == IF k > 0 THEN Max2(n - k, 0) ELSE Min2(0 - k, n)
    IN [i \in 1..(n - from) |-> a[from + i]]

\* a[:k] of Python (DataFrame.head(k)) for k >= 0.
PyHead(a, k) == [i \in 1..Min2(Max2(k, 0), Len(a)) |-> a[i]]

\* ------------------------------------------------------------------ strings
\* Texts are TLA+ strings; SubSeq, Len and \o act on them character-wise.
UpperCase == <<"W", "I", "F", "L", "N", "O">>

LowerCase == <<"w", "i", "f", "l", "n", "o">>

LowerChar(c) ==
    IF \E i \in DOMAIN UpperCase : UpperCase[i] = c
    THEN LowerCase[CHOOSE i \in DOMAIN UpperCase : UpperCase[i] = c]
    ELSE c

RECURSIVE Lower(_)
\* str.lower()
Lower(s) ==
    IF Len(s) = 0 THEN ""
    ELSE LowerChar(SubSeq(s, 1, 1)) \o Lower(SubSeq(s, 2, Len(s)))

\* needle in hay (Python's substring test)
Contains(hay, needle) ==
    \E i \in 1..(Len(hay) - Len(needle) + 1) : SubSeq(hay, i, i + Len(needle) - 1) = needle

\* re.search(pat, hay) for a pattern of literal characters and ".", which
\* matches any one character (the only metacharacter the model's filters use).
RegexSearch(hay, pat) ==
    IF ~Contains(pat, ".") THEN Contains(hay, pat)
    ELSE \E i \in 1..(Len(hay) - Len(pat) + 1) :
            \A j \in 1..Len(pat) :
                \/ SubSeq(pat, j, j) = "."
                \/ SubSeq(pat, j, j) = SubSeq(hay, i + j - 1, i + j - 1)

\* Series.str.contains(pat, case=False) on one value: pat is a regular
\* expression (regex=True is the default), matched ignoring case.
ContainsNoCase(hay, pat) == RegexSearch(Lower(hay), Lower(pat))

\* Characters that end a token (everything the model uses outside \w).
Separators == {" ", "-", "&", ":", ","}

RECURSIVE Split(_)
\* The maximal runs of non-separator characters of s, in order.
Split(s) ==
    IF Len(s) = 0 THEN <<>>
    ELSE LET seps == {i \in 1..Len(s) : SubSeq(s, i, i) \in Separators}
         IN IF seps = {} THEN <<s>>
            ELSE LET i == CHOOSE j \in seps : \A k \in seps : j <= k
                 IN (IF i = 1 THEN <<>> ELSE <<SubSeq(s, 1, i - 1)>>)
                    \o Split(SubSeq(s, i + 1, Len(s)))

\* The tokenizer of TfidfVectorizer: lower-cased, token_pattern \b\w\w+\b
\* (tokens of two or more word characters).
Tokenize(s) == SelectSeq(Split(Lower(s)), LAMBDA w : Len(w) >= 2)

\* " ".join(parts)
RECURSIVE JoinSpace(_)
JoinSpace(parts) ==
    IF Len(parts) = 0 THEN ""
    ELSE IF Len(parts) = 1 THEN parts[1]
    ELSE parts[1] \o " " \o JoinSpace(Tail(parts))

\* ------------------------------------------------------ text and tf-idf
\* sklearn's English stop word list, restricted to the words the model uses.
StopWords == {"the", "and"}

\* Scale * ln(k), k = 1..12
LnTable == <<0, 693, 1099, 1386, 1609, 1792, 1946, 2079, 2197, 2303, 2398, 2485>>

\* The analyzer: stop words removed, then the unigrams followed by the bigrams
\* of adjacent remaining tokens.  A term is a sequence of one or two words.
Analyze(text) ==
    LET toks == SelectSeq(Tokenize(text), LAMBDA w : w \notin StopWords)
    IN [i \in 1..Len(toks) |-> <<toks[i]>>]
       \o [i \in 1..Max2(Len(toks) - 1, 0) |-> <<toks[i], toks[i + 1]>>]

\* Term frequency of term t in an analyzed text.
Tf(t, terms) == Cardinality({i \in DOMAIN terms : terms[i] = t})

\* Document frequency of term t in a sequence of analyzed texts.
Df(t, docs) == Cardinality({d \in DOMAIN docs : Tf(t, docs[d]) > 0})

AllTerms(docs) == UNION {Range(docs[d]) : d \in DOMAIN docs}

\* Smoothed idf, ln((1 + n) / (1 + df)) + 1, times Scale.
Idf(n, df) == Scale + LnTable[1 + n] - LnTable[1 + df]

\* The max_features cut: the terms with the highest corpus-wide frequency.
\* (Ties at the cut are resolved by CHOOSE; with max_features = 5000 the cut
\* never binds on the catalogs of this model.)
LimitFeatures(kept, docs) ==
    IF Cardinality(kept) <= max_features THEN kept
    ELSE CHOOSE S \in SUBSET kept :
            /\ Cardinality(S) = max_features
            /\ \A t \in S, u \in kept \ S :
                 SumOver(DOMAIN docs, LAMBDA d : Tf(t, docs[d]))
                   >= SumOver(DOMAIN docs, LAMBDA d : Tf(u, docs[d]))

\* Pruning by max_df alone.
PrunedTermsNoMinDf(docs) ==
    {t \in AllTerms(docs) : MaxDfDen * Df(t, docs) <= MaxDfNum * Len(docs)}

\* The terms that pass min_df / max_df.
PrunedTerms(docs) ==
    {t \in AllTerms(docs) :
        /\ Df(t, docs) >= min_df
        /\ MaxDfDen * Df(t, docs) <= MaxDfNum * Len(docs)}

\* TfidfVectorizer.fit: the fitted vocabulary with its idf, or the error fit
\* raises.  Result: [ok, vocabulary, idf] (fitted) or [ok |-> FALSE, error].
Fit(corpus) ==
    LET n == Len(corpus)
        docs == [d \in DOMAIN corpus |-> Analyze(corpus[d])]
        kept == LimitFeatures(PrunedTerms(docs), docs)
    IN IF AllTerms(docs) = {}
       THEN [ok |-> FALSE, error |-> "ValueError: empty vocabulary"]
       ELSE IF MaxDfNum * n < min_df * MaxDfDen
       THEN [ok |-> FALSE, error |-> "ValueError: max_df corresponds to < documents than min_df"]
       ELSE IF kept = {}
       THEN [ok |-> FALSE, error |-> "ValueError: After pruning, no terms remain"]
       ELSE [ok |-> TRUE,
             vocabulary |-> kept,
             idf |-> [t \in kept |-> Idf(n, Df(t, docs))]]

\* TfidfVectorizer.transform of one text under a fitted vectorizer: the
\* L2-normalised tf * idf weights over the vocabulary (terms outside the
\* vocabulary are ignored; a text with no vocabulary term is the zero vector).
TransformOne(vec, text) ==
    LET terms == Analyze(text)
        raw == [t \in vec.vocabulary |-> Tf(t, terms) * vec.idf[t]]
        sq == SumOver(vec.vocabulary, LAMBDA t : raw[t] * raw[t])
        norm == ISqrt(sq)
    IN [t \in vec.vocabulary |-> IF norm = 0 THEN 0 ELSE (raw[t] * Scale) \div norm]

Transform(vec, corpus) == [d \in DOMAIN corpus |-> TransformOne(vec, corpus[d])]

\* sklearn cosine_similarity of two L2-normalised rows over the same
\* vocabulary, scaled by Scale * Scale.
Cosine(u, v) == SumOver(DOMAIN u, LAMBDA t : u[t] * v[t])

\* numpy / pandas argsort with the default kind ("quicksort", not stable):
\* every ascending order of the positions is a possible outcome; the order
\* among equal scores is unspecified.
RECURSIVE ArgsortFrom(_, _)
ArgsortFrom(scores, rem) ==
    IF rem = {} THEN {<<>>}
    ELSE LET least == {i \in rem : \A j \in rem : scores[i] <= scores[j]}
         IN UNION {{<<i>> \o s : s \in ArgsortFrom(scores, rem \ {i})} : i \in least}

Argsort(scores) == ArgsortFrom(scores, DOMAIN scores)

\* ------------------------------------------------------------ ProductIndex
\* Optional fields are tagged records, so that None and a value compare.
NoFrame == [is_none |-> TRUE, rows |-> <<>>]

Frame(rows) == [is_none |-> FALSE, rows |-> rows]

NoVectorizer == [state |-> "None"]

UnfittedVectorizer == [state |-> "unfitted"]

FittedVectorizer(fit) == [state |-> "fitted", vocabulary |-> fit.vocabulary, idf |-> fit.idf]

NoMatrix == [is_none |-> TRUE, rows |-> <<>>]

Matrix(rows) == [is_none |-> FALSE, rows |-> rows]

NoScaler == [state |-> "None"]

\* StandardScaler.fit on the price column: the moments it keeps.
FittedScaler(prices) ==
    [state |-> "fitted",
     n_samples_seen |-> Len(prices),
     sum |-> SumSeq(prices),
     sum_sq |-> SumSeq([i \in DOMAIN prices |-> prices[i] * prices[i]])]

DefaultWeights ==
    [text_similarity |-> W_text, price_similarity |-> W_price, category_similarity |-> W_category]

\* ProductIndex.__init__
NewProductIndex ==
    [products |-> NoFrame,
     tfidf_vectorizer |-> NoVectorizer,
     tfidf_matrix |-> NoMatrix,
     price_scaler |-> NoScaler,
     feature_weights |-> DefaultWeights]

\* What a call gives its caller: a returned value or a raised exception.
Return(v) == [raised |-> FALSE, error |-> "", value |-> v]

Raise(e) == [raised |-> TRUE, error |-> e, value |-> <<>>]

ErrNotReady == "ValueError: Search engine not initialized"

ErrNotBuilt == "ValueError: Index not built"

ErrNotFound == "ValueError: Product not found"

ErrSlice == "TypeError: slice indices must be integers"

\* A top_k argument: an integer, or a value that is no integer (None, 2.5, "10").
IntK(n) == [is_int |-> TRUE, n |-> n]

NonInt == [is_int |-> FALSE, n |-> 0]

SearchTexts(rows) == [i \in DOMAIN rows |-> rows[i].search_text]

Prices(rows) == [i \in DOMAIN rows |-> rows[i].SellPrice_numeric]

\* ProductIndex.build_index: the index after the call and the error it
\* raised ("" when it returned).  fit_transform may raise after products and
\* the (still unfitted) vectorizer have been assigned.
build_index(ix, processed_data) ==
    LET fit == Fit(SearchTexts(processed_data))
    IN IF fit.ok
       THEN [index |-> [ix EXCEPT
                          !.products = Frame(processed_data),
                          !.tfidf_vectorizer = FittedVectorizer(fit),
                          !.tfidf_matrix =
                              Matrix(Transform(FittedVectorizer(fit), SearchTexts(processed_data))),
                          !.price_scaler = FittedScaler(Prices(processed_data))],
             error |-> ""]
       ELSE [index |-> [ix EXCEPT
                          !.products = Frame(processed_data),
                          !.tfidf_vectorizer = UnfittedVectorizer],
             error |-> fit.error]

\* The result list text_search builds from one argsort outcome.
TextSearchResults(rows, similarities, order, top_k) ==
    LET top_indices == Reverse(PySliceLast(order, top_k.n))
        hits == SelectSeq(top_indices, LAMBDA p : similarities[p] > 0)
    IN [i \in DOMAIN hits |->
          [product |-> rows[hits[i]], similarity_score |-> similarities[hits[i]]]]

\* ProductIndex.text_search: the set of outcomes the call can have.
text_search(ix, query, top_k) ==
    IF ix.tfidf_matrix.is_none THEN {Raise(ErrNotBuilt)}
    ELSE IF ix.tfidf_vectorizer.state # "fitted"
    THEN {Raise("NotFittedError")}
    ELSE IF Len(ix.tfidf_matrix.rows) = 0
    THEN {Raise("ValueError: Found array with 0 sample(s)")}
    ELSE LET query_vector == TransformOne(ix.tfidf_vectorizer, query)
             similarities ==
                 [p \in DOMAIN ix.tfidf_matrix.rows |->
                     Cosine(query_vector, ix.tfidf_matrix.rows[p])]
         IN IF ~top_k.is_int THEN {Raise(ErrSlice)}
            ELSE {Return(TextSearchResults(ix.products.rows, similarities, order, top_k)) :
                     order \in Argsort(similarities)}

\* Positions (1-based) of the rows of a frame that carry index label lab.
PosOfLabel(rows, lab) == {p \in DOMAIN rows : rows[p].label = lab}

AbsDiff(a, b) == IF a >= b THEN a - b ELSE b - a

SetMax(S) == CHOOSE x \in S : \A y \in S : y <= x

SetMin(S) == CHOOSE x \in S : \A y \in S : x <= y

\* Text similarities taken against the first row of the matrix, whatever the
\* reference is.
TextSimilaritiesToFirstRow(matrix_rows, ref_idx) ==
    [p \in DOMAIN matrix_rows |-> Cosine(matrix_rows[1], matrix_rows[p])]

\* The three similarity columns of get_similar_products, by row position:
\* text from the matrix row at POSITION ref_idx, price and category from the
\* reference row, each scaled by Scale * Scale.
TextSimilarities(matrix_rows, ref_idx) ==
    [p \in DOMAIN matrix_rows |-> Cosine(matrix_rows[ref_idx + 1], matrix_rows[p])]

PriceSimilarities(rows, ref_price) ==
    LET price_diffs == [p \in DOMAIN rows |-> AbsDiff(rows[p].SellPrice_numeric, ref_price)]
        max_price_diff == SetMax(Range(price_diffs))
    IN [p \in DOMAIN rows |->
          IF max_price_diff > 0
          THEN Scale * Scale - MulDiv(Scale * Scale, price_diffs[p], max_price_diff)
          ELSE Scale * Scale]

CategorySimilarities(rows, ref_category) ==
    [p \in DOMAIN rows |-> IF rows[p].Category = ref_category THEN Scale * Scale ELSE 0]

\* combined_similarities with the reference's own entry (found by LABEL
\* ref_idx) forced to 0.
CombinedSimilarities(ix, rows, refpos) ==
    LET ref == rows[refpos]
        text == TextSimilarities(ix.tfidf_matrix.rows, ref.label)
        price == PriceSimilarities(rows, ref.SellPrice_numeric)
        cat == CategorySimilarities(rows, ref.Category)
        w == ix.feature_weights
    IN [p \in DOMAIN rows |->
          IF rows[p].label = ref.label THEN 0
          ELSE w.text_similarity * text[p] + w.price_similarity * price[p]
               + w.category_similarity * cat[p]]

\* The result list get_similar_products builds from one argsort outcome.  The
\* loop reads the product and the text score by position and the combined,
\* price and category scores by label.
SimilarResults(ix, rows, refpos, order, top_k) ==
    LET ref == rows[refpos]
        combined == CombinedSimilarities(ix, rows, refpos)
        text == TextSimilarities(ix.tfidf_matrix.rows, ref.label)
        price == PriceSimilarities(rows, ref.SellPrice_numeric)
        cat == CategorySimilarities(rows, ref.Category)
        top_indices == Reverse(PySliceLast(order, top_k.n))
        at(p) == SetMin(PosOfLabel(rows, p - 1))
    IN IF \E i \in DOMAIN top_indices : PosOfLabel(rows, top_indices[i] - 1) = {}
       THEN Raise("KeyError")
       ELSE Return([i \in DOMAIN top_indices |->
                [product |-> rows[top_indices[i]],
                 similarity_score |-> combined[at(top_indices[i])],
                 text_similarity |-> text[top_indices[i]],
                 price_similarity |-> price[at(top_indices[i])],
                 category_similarity |-> cat[at(top_indices[i])]]])

\* ProductIndex.get_similar_products: the set of outcomes the call can have.
get_similar_products(ix, product_id, top_k) ==
    IF ix.products.is_none THEN {Raise(ErrNotBuilt)}
    ELSE LET rows == ix.products.rows
             refs == {p \in DOMAIN rows : rows[p].product_id = product_id}
         IN IF refs = {} THEN {Raise(ErrNotFound)}
            ELSE LET refpos == SetMin(refs)
                     ref_idx == rows[refpos].label
                 IN IF ix.tfidf_matrix.is_none
                    THEN {Raise("TypeError: 'NoneType' object is not subscriptable")}
                    ELSE IF ref_idx + 1 > Len(ix.tfidf_matrix.rows)
                    THEN {Raise("ValueError: Found array with 0 sample(s)")}
                    ELSE IF Len(ix.tfidf_matrix.rows) # Len(rows)
                    THEN {Raise("ValueError: operands could not be broadcast together")}
                    ELSE IF ~top_k.is_int THEN {Raise(ErrSlice)}
                    ELSE {SimilarResults(ix, rows, refpos, order, top_k) :
                             order \in Argsort(CombinedSimilarities(ix, rows, refpos))}

\* ProductIndex.get_product_by_id
get_product_by_id(ix, product_id) ==
    IF ix.products.is_none THEN Raise(ErrNotBuilt)
    ELSE LET rows == ix.products.rows
             found == {p \in DOMAIN rows : rows[p].product_id = product_id}
         IN IF found = {} THEN Return(<<>>) ELSE Return(<<rows[SetMin(found)]>>)

\* -------------------------------------------------------- DataPreprocessor
\* NaN of a numeric column.
NaN == 0 - 1

\* currency_conversion_rate, default 0.0095, as pence per 100 INR.
RatePer100 == 95

\* round(x, 2) of a price a / b pounds given in pence (half to even).
RoundDiv(a, b) ==
    LET q == a \div b
        r == a % b
    IN IF 2 * r > b \/ (2 * r = b /\ q % 2 = 1) THEN q + 1 ELSE q

\* A price cell whose text is not a number.
Unparseable == 0 - 2

\* pd.to_numeric(column, errors="coerce") on one cell.
to_numeric(cell) == IF cell = Unparseable THEN NaN ELSE cell

\* INR -> GBP pence: price * rate rounded to 2 decimals.
ConvertPrice(inr) == IF inr = NaN THEN NaN ELSE RoundDiv(inr * RatePer100, 100)

Digits == <<"0", "1", "2", "3", "4", "5", "6", "7", "8", "9">>

IsDigit(c) == \E d \in DOMAIN Digits : Digits[d] = c

DigitVal(c) == (CHOOSE d \in DOMAIN Digits : Digits[d] = c) - 1

RECURSIVE DigitsValue(_, _)
\* Value of the leading run of digits of s, continuing from acc.
DigitsValue(s, acc) ==
    IF Len(s) = 0 \/ ~IsDigit(SubSeq(s, 1, 1)) THEN acc
    ELSE DigitsValue(SubSeq(s, 2, Len(s)), 10 * acc + DigitVal(SubSeq(s, 1, 1)))

\* Series.str.extract(r"(\d+)").astype(float) on one value: the first run of
\* digits, NaN when there is none.
ExtractDiscount(s) ==
    LET at == {i \in 1..Len(s) : IsDigit(SubSeq(s, i, i))}
    IN IF at = {} THEN NaN
       ELSE DigitsValue(SubSeq(s, CHOOSE i \in at : \A j \in at : i <= j, Len(s)), 0)

RECURSIVE SplitComma(_)
\* s.split(",")
SplitComma(s) ==
    LET at == {i \in 1..Len(s) : SubSeq(s, i, i) = ","}
    IN IF at = {} THEN <<s>>
       ELSE LET i == CHOOSE j \in at : \A k \in at : j <= k
            IN <<SubSeq(s, 1, i - 1)>> \o SplitComma(SubSeq(s, i + 1, Len(s)))

RECURSIVE Strip(_)
\* str.strip()
Strip(s) ==
    IF Len(s) = 0 THEN s
    ELSE IF SubSeq(s, 1, 1) = " " THEN Strip(SubSeq(s, 2, Len(s)))
    ELSE IF SubSeq(s, Len(s), Len(s)) = " " THEN Strip(SubSeq(s, 1, Len(s) - 1))
    ELSE s

\* DataPreprocessor.parse_sizes: the entries after "Size:", comma-separated.
parse_sizes(size_string) ==
    LET at == {i \in 1..(Len(size_string) - 4) : SubSeq(size_string, i, i + 4) = "Size:"}
    IN IF at = {} THEN <<>>
       ELSE LET first == CHOOSE i \in at : \A j \in at : i <= j
                later == {j \in at : j > first}
                stop == IF later = {} THEN Len(size_string)
                        ELSE (CHOOSE j \in later : \A k \in later : j <= k) - 1
                parts == SplitComma(SubSeq(size_string, first + 5, stop))
            IN [i \in DOMAIN parts |-> Strip(parts[i])]

\* The first entry of a keyword list that occurs in the text, "" when none.
FirstContained(keywords, text) ==
    LET hit == {i \in DOMAIN keywords : Contains(text, keywords[i])}
    IN IF hit = {} THEN "" ELSE keywords[CHOOSE i \in hit : \A j \in hit : i <= j]

Materials == <<"cotton", "polyester", "silk", "wool", "denim", "linen", "viscose", "rayon">>

Fits == <<"regular fit", "slim fit", "loose fit", "tight fit", "oversized">>

Necks == <<"collar neck", "v-neck", "round neck", "boat neck", "turtleneck", "cowl neck">>

Patterns == <<"solid", "striped", "printed", "checked", "floral", "geometric">>

Garments == <<"dress", "top", "jeans", "shirt", "blouse", "skirt", "pants", "jacket">>

\* DataPreprocessor.extract_features_from_details ("" is a missing feature).
extract_features_from_details(details) ==
    [material |-> FirstContained(Materials, Lower(details)),
     fit |-> FirstContained(Fits, Lower(details)),
     neck_type |-> FirstContained(Necks, Lower(details)),
     pattern |-> FirstContained(Patterns, Lower(details)),
     garment_type |-> FirstContained(Garments, Lower(details))]

\* DataPreprocessor.create_search_text: brand, details, raw category and the
\* extracted features, space-joined and lower-cased.
create_search_text(raw, features) ==
    Lower(JoinSpace(
        <<raw.BrandName, raw.Deatils, raw.Category>>
        \o SelectSeq(<<features.material, features.fit, features.neck_type,
                       features.pattern, features.garment_type>>,
                     LAMBDA f : f # "")))

\* DataPreprocessor.categorize_price_range, the price in pence.
categorize_price_range(price) ==
    IF price = NaN THEN "unknown"
    ELSE IF price < 500 THEN "budget"
    ELSE IF price < 1500 THEN "mid-range"
    ELSE IF price < 3000 THEN "premium"
    ELSE "luxury"

CategoryMapping ==
    <<<<"westernwear-women", "Western Wear">>,
      <<"indianwear-women", "Indian Wear">>,
      <<"lingerie&nightwear-women", "Lingerie & Nightwear">>,
      <<"footwear-women", "Footwear">>,
      <<"watches-women", "Watches">>,
      <<"jewellery-women", "Jewellery">>,
      <<"fragrance-women", "Fragrance">>>>

\* DataPreprocessor.clean_categories.  The fallback for a raw category outside
\* the table (suffix removal and title-casing) is not reached by the raw
\* categories of this model, which are all table entries.
clean_categories(category) ==
    LET cleaned == Strip(Lower(category))
        hit == {i \in DOMAIN CategoryMapping : CategoryMapping[i][1] = cleaned}
    IN IF hit # {} THEN CategoryMapping[CHOOSE i \in hit : TRUE][2]
       ELSE IF cleaned = "" THEN "Other"
       ELSE cleaned

\* DataPreprocessor.process_dataset on the rows of a CSV file: one processed
\* row per raw row, product_id and index label both the row position.
process_dataset(raw_rows) ==
    [i \in DOMAIN raw_rows |->
        LET raw == raw_rows[i]
            features == extract_features_from_details(raw.Deatils)
            price == ConvertPrice(to_numeric(raw.SellPrice))
        IN [label |-> i - 1,
            product_id |-> i - 1,
            BrandName |-> Lower(Strip(raw.BrandName)),
            Deatils |-> raw.Deatils,
            Category |-> clean_categories(raw.Category),
            Category_Raw |-> raw.Category,
            MRP_numeric |-> ConvertPrice(raw.MRP),
            SellPrice_numeric |-> price,
            Discount_numeric |-> ExtractDiscount(raw.Discount),
            sizes_list |-> parse_sizes(raw.Sizes),
            material |-> features.material,
            garment_type |-> features.garment_type,
            price_range |-> categorize_price_range(price),
            search_text |-> create_search_text(raw, features)]]

\* ProductIndex.get_trending_products score of one row,
\* 0.7 * discount + 0.3 * (1 / (price / 1000)), as the fraction num / den
\* (price in pence: 0.3 * 1000 / (pence / 100) = 30000 / pence); den = 0 is
\* the infinite score of a price of 0.
TrendingScore(row) ==
    LET discount == IF row.Discount_numeric = NaN THEN 0 ELSE row.Discount_numeric
        pence == IF row.SellPrice_numeric = NaN THEN 100000 ELSE row.SellPrice_numeric
    IN [num |-> 7 * discount * pence + 300000, den |-> 10 * pence]

\* a > b for two trending scores (whole parts first, then the remainders, so
\* that no product leaves the 32-bit range)
ScoreGreater(a, b) ==
    IF a.den = 0 THEN b.den # 0
    ELSE IF b.den = 0 THEN FALSE
    ELSE IF a.num \div a.den # b.num \div b.den THEN a.num \div a.den > b.num \div b.den
    ELSE (a.num % a.den) * b.den > (b.num % b.den) * a.den

\* Series.nlargest(limit) (keep="first"): the positions of the limit largest
\* scores, largest first, equal scores in row order.
NLargest(rows, limit) ==
    LET before(p, q) ==
            \/ ScoreGreater(TrendingScore(rows[p]), TrendingScore(rows[q]))
            \/ (~ScoreGreater(TrendingScore(rows[q]), TrendingScore(rows[p])) /\ p < q)
        rank(p) == Cardinality({q \in DOMAIN rows : before(q, p)})
        n == Min2(Max2(limit, 0), Len(rows))
    IN [i \in 1..n |-> CHOOSE p \in DOMAIN rows : rank(p) = i - 1]

\* ProductIndex.get_trending_products
get_trending_products(ix, limit) ==
    IF ix.products.is_none THEN Raise(ErrNotBuilt)
    ELSE LET rows == ix.products.rows
             top == NLargest(rows, limit)
         IN Return([i \in DOMAIN top |->
                [product |-> rows[top[i]], trending_score |-> TrendingScore(rows[top[i]])]])

\* An optional number argument (None, or a value).
NoNumber == [is_none |-> TRUE, v |-> 0]

Number(v) == [is_none |-> FALSE, v |-> v]

\* The filter arguments of filter_products / search.  A string filter that is
\* None or "" is falsy and skipped; both are written "".
NoFilters ==
    [category |-> "", brand |-> "", min_price |-> NoNumber, max_price |-> NoNumber,
     material |-> "", size |-> "", price_range |-> ""]

\* Whether one row passes the filters filter_products applies.
PassesFilters(row, f) ==
    /\ f.category # "" => ContainsNoCase(row.Category, f.category)
    /\ f.brand # "" => ContainsNoCase(row.BrandName, f.brand)
    /\ ~f.min_price.is_none =>
          (row.SellPrice_numeric # NaN /\ row.SellPrice_numeric >= f.min_price.v)
    /\ ~f.max_price.is_none =>
          (row.SellPrice_numeric # NaN /\ row.SellPrice_numeric <= f.max_price.v)
    /\ f.material # "" => (row.material # "" /\ ContainsNoCase(row.material, f.material))
    /\ f.size # "" =>
          \E i \in DOMAIN row.sizes_list : Contains(Lower(row.sizes_list[i]), Lower(f.size))
    /\ f.price_range # "" => row.price_range = f.price_range

\* ProductIndex.filter_products: the filtered frame (rows keep their labels),
\* or the error.
filter_products(ix, f) ==
    IF ix.products.is_none THEN Raise(ErrNotBuilt)
    ELSE Return(SelectSeq(ix.products.rows, LAMBDA row : PassesFilters(row, f)))

\* ProductIndex.get_products_by_category
get_products_by_category(ix, category, limit) ==
    LET filtered == filter_products(ix, [NoFilters EXCEPT !.category = category])
    IN IF filtered.raised THEN filtered ELSE Return(PyHead(filtered.value, limit))

RECURSIVE Unique(_)
\* Series.unique(): the distinct values in order of first appearance.
Unique(s) ==
    IF Len(s) = 0 THEN <<>>
    ELSE LET rest == Unique(SubSeq(s, 1, Len(s) - 1))
         IN IF s[Len(s)] \in Range(rest) THEN rest ELSE Append(rest, s[Len(s)])

\* Series.value_counts().to_dict()
ValueCounts(s) == [v \in Range(s) |-> Cardinality({i \in DOMAIN s : s[i] = v})]

Column(rows, name) == [i \in DOMAIN rows |-> rows[i][name]]

\* ------------------------------------------------------------- persistence
\* The keys of the pickled bundle.
BundleKeys == {"products", "tfidf_vectorizer", "tfidf_matrix", "price_scaler", "feature_weights"}

NoFile == [exists |-> FALSE]

\* ProductIndex.save_index: the dict pickled to index_path, or the error.
save_index(ix) ==
    IF ix.products.is_none THEN [error |-> ErrNotBuilt]
    ELSE [error |-> "",
          file |-> [exists |-> TRUE,
                    keys |-> BundleKeys,
                    products |-> ix.products,
                    tfidf_vectorizer |-> ix.tfidf_vectorizer,
                    tfidf_matrix |-> ix.tfidf_matrix,
                    price_scaler |-> ix.price_scaler,
                    feature_weights |-> ix.feature_weights]]

\* A load that does not put the term matrix back.
load_index_without_matrix(ix, file) ==
    IF ~file.exists \/ file.keys # BundleKeys \/ file.products.is_none
    THEN [index |-> ix, error |-> "load failed"]
    ELSE [index |-> [ix EXCEPT !.products = file.products,
                               !.tfidf_vectorizer = file.tfidf_vectorizer,
                               !.price_scaler = file.price_scaler,
                               !.feature_weights = file.feature_weights],
          error |-> ""]

\* ProductIndex.load_index: the index after the call and the error raised.
\* The five keys are read in order; a missing key raises KeyError and leaves
\* the fields read before it assigned.  The closing print takes
\* len(self.products).
load_index(ix, file) ==
    IF ~file.exists THEN [index |-> ix, error |-> "FileNotFoundError"]
    ELSE IF "products" \notin file.keys THEN [index |-> ix, error |-> "KeyError: products"]
    ELSE LET ix1 == [ix EXCEPT !.products = file.products]
         IN IF "tfidf_vectorizer" \notin file.keys
            THEN [index |-> ix1, error |-> "KeyError: tfidf_vectorizer"]
            ELSE LET ix2 == [ix1 EXCEPT !.tfidf_vectorizer = file.tfidf_vectorizer]
                 IN IF "tfidf_matrix" \notin file.keys
                    THEN [index |-> ix2, error |-> "KeyError: tfidf_matrix"]
                    ELSE LET ix3 == [ix2 EXCEPT !.tfidf_matrix = file.tfidf_matrix]
                         IN IF "price_scaler" \notin file.keys
                            THEN [index |-> ix3, error |-> "KeyError: price_scaler"]
                            ELSE LET ix4 == [ix3 EXCEPT !.price_scaler = file.price_scaler]
                                 IN IF "feature_weights" \notin file.keys
                                    THEN [index |-> ix4, error |-> "KeyError: feature_weights"]
                                    ELSE LET ix5 == [ix4 EXCEPT !.feature_weights =
                                                                    file.feature_weights]
                                         IN IF ix5.products.is_none
                                            THEN [index |-> ix5,
                                                  error |-> "TypeError: object of type 'NoneType' has no len()"]
                                            ELSE [index |-> ix5, error |-> ""]

\* ------------------------------------------------------------ SearchEngine
\* SearchEngine.index and SearchEngine.preprocessor are Optional.
NoIndex == [is_none |-> TRUE]

SomeIndex(ix) == [is_none |-> FALSE, obj |-> ix]

NoPreprocessor == [is_none |-> TRUE]

\* DataPreprocessor.__init__: nothing loaded or processed yet.
NewPreprocessor(csv_path) ==
    [is_none |-> FALSE, data_path |-> csv_path, processed_data |-> NoFrame]

\* DataPreprocessor.get_data_summary on the processed frame.
SortedPrices(rows) ==
    LET prices == Prices(rows)
        rank(i) == Cardinality({j \in DOMAIN prices :
                        prices[j] < prices[i] \/ (prices[j] = prices[i] /\ j < i)})
    IN [k \in DOMAIN prices |-> prices[CHOOSE i \in DOMAIN prices : rank(i) = k - 1]]

get_data_summary(rows) ==
    [total_products |-> Len(rows),
     unique_brands |-> Cardinality(Range(Column(rows, "BrandName"))),
     categories |-> ValueCounts(Column(rows, "Category")),
     price_ranges |-> ValueCounts(Column(rows, "price_range")),
     materials |-> ValueCounts(SelectSeq(Column(rows, "material"), LAMBDA m : m # "")),
     garment_types |-> ValueCounts(SelectSeq(Column(rows, "garment_type"), LAMBDA g : g # "")),
     price_stats |->
        IF Len(rows) = 0 THEN <<>>
        ELSE LET sorted == SortedPrices(rows)
             IN [min_price |-> sorted[1],
                 max_price |-> sorted[Len(rows)],
                 avg_price |-> <<SumSeq(sorted), Len(rows)>>,
                 median_price |-> <<sorted[(Len(rows) + 1) \div 2], sorted[(Len(rows) + 2) \div 2]>>]]

\* The fallback summary SearchEngine.get_data_summary takes from the index.
FallbackSummary(rows) ==
    [total_products |-> Len(rows),
     unique_brands |-> Cardinality(Range(Column(rows, "BrandName"))),
     categories |-> ValueCounts(Column(rows, "Category")),
     price_ranges |-> ValueCounts(Column(rows, "price_range"))]

ErrNoneSubscript == "TypeError: 'NoneType' object is not subscriptable"

\* A search that fits a new vectorizer on the filtered rows and scores them
\* with it.
search_refit(ix, query, f, top_k) ==
    LET filtered == filter_products(ix, f)
    IN IF filtered.raised THEN {[index |-> ix, outcome |-> filtered]}
       ELSE IF Len(filtered.value) = 0 THEN {[index |-> ix, outcome |-> Return(<<>>)]}
       ELSE IF Strip(query) = ""
       THEN {[index |-> ix, outcome |-> Return(PyHead(filtered.value, top_k.n))]}
       ELSE LET refit == build_index(NewProductIndex, filtered.value)
            IN IF refit.error # "" THEN {[index |-> ix, outcome |-> Raise(refit.error)]}
               ELSE {[index |-> ix, outcome |-> o] : o \in text_search(refit.index, query, top_k)}

\* SearchEngine.search on a ready engine whose index is ix: the set of
\* (index after the call, outcome) pairs.  With a non-blank query the
\* filtered frame and its transform are installed in the index, text_search
\* runs, and the originals are put back afterwards -- by plain statements, so
\* an exception in text_search leaves the filtered frame installed.
search(ix, query, f, top_k) ==
    LET filtered == filter_products(ix, f)
    IN IF filtered.raised THEN {[index |-> ix, outcome |-> filtered]}
       ELSE IF Len(filtered.value) = 0 THEN {[index |-> ix, outcome |-> Return(<<>>)]}
       ELSE IF Strip(query) = ""
       THEN {[index |-> ix,
              outcome |-> IF top_k.is_int THEN Return(PyHead(filtered.value, top_k.n))
                          ELSE Raise("TypeError: head")]}
       ELSE IF ix.tfidf_vectorizer.state = "None"
       THEN {[index |-> ix, outcome |-> Raise("AttributeError: 'NoneType' object has no attribute 'transform'")]}
       ELSE IF ix.tfidf_vectorizer.state = "unfitted"
       THEN {[index |-> ix, outcome |-> Raise("NotFittedError")]}
       ELSE LET temp_tfidf_matrix ==
                    Matrix(Transform(ix.tfidf_vectorizer, SearchTexts(filtered.value)))
                swapped == [ix EXCEPT !.products = Frame(filtered.value),
                                      !.tfidf_matrix = temp_tfidf_matrix]
            IN {[index |-> IF o.raised THEN swapped ELSE ix, outcome |-> o] :
                    o \in text_search(swapped, query, top_k)}

\* The keyword tables of smart_search, in their own order.
CategoryKeywords ==
    <<<<"dress", "Western Wear">>, <<"western", "Western Wear">>,
      <<"indian", "Indian Wear">>, <<"ethnic", "Indian Wear">>,
      <<"lingerie", "Lingerie & Nightwear">>, <<"nightwear", "Lingerie & Nightwear">>,
      <<"shoes", "Footwear">>, <<"footwear", "Footwear">>,
      <<"boots", "Footwear">>, <<"sandals", "Footwear">>,
      <<"watch", "Watches">>, <<"jewelry", "Jewellery">>, <<"jewellery", "Jewellery">>,
      <<"perfume", "Fragrance">>, <<"fragrance", "Fragrance">>>>

SmartMaterials == <<"cotton", "silk", "denim", "wool", "polyester", "linen">>

\* The category of the last keyword of the table that occurs.
DetectCategoryLast(query_lower) ==
    LET hit == {i \in DOMAIN CategoryKeywords : Contains(query_lower, CategoryKeywords[i][1])}
    IN IF hit = {} THEN "" ELSE CategoryKeywords[CHOOSE i \in hit : \A j \in hit : i >= j][2]

DetectCategory(query_lower) ==
    LET hit == {i \in DOMAIN CategoryKeywords : Contains(query_lower, CategoryKeywords[i][1])}
    IN IF hit = {} THEN "" ELSE CategoryKeywords[CHOOSE i \in hit : \A j \in hit : i <= j][2]

DetectPriceRange(query_lower) ==
    IF \E w \in {"cheap", "budget", "affordable"} : Contains(query_lower, w) THEN "budget"
    ELSE IF \E w \in {"premium", "expensive", "luxury"} : Contains(query_lower, w) THEN "luxury"
    ELSE IF Contains(query_lower, "mid") THEN "mid-range"
    ELSE ""

\* SearchEngine.smart_search on a ready engine.
smart_search(ix, query, top_k) ==
    search(ix, query,
           [NoFilters EXCEPT !.category = DetectCategory(Lower(query)),
                             !.price_range = DetectPriceRange(Lower(query)),
                             !.material = FirstContained(SmartMaterials, Lower(query))],
           top_k)

\* A query operation without the is_ready check: a missing index surfaces as
\* the AttributeError of None, anything else as the operation's own results.
IfReadyUnguarded(eng, results) ==
    IF eng.index.is_none
    THEN {[index |-> eng.index, outcome |-> Raise("AttributeError: 'NoneType' object")]}
    ELSE results

\* The precondition check every query operation of SearchEngine starts with:
\* not ready raises and touches nothing; otherwise the operation's own results.
\* eng is [preprocessor, index, is_ready]; a result is (index after, outcome).
IfReady(eng, results) ==
    IF ~eng.is_ready THEN {[index |-> eng.index, outcome |-> Raise(ErrNotReady)]}
    ELSE results

Unchanged(eng, outcome) == [index |-> eng.index, outcome |-> outcome]

\* SearchEngine.search
engine_search(eng, query, f, top_k) ==
    IfReady(eng, {[index |-> [eng.index EXCEPT !.obj = r.index], outcome |-> r.outcome] :
                     r \in search(eng.index.obj, query, f, top_k)})

\* SearchEngine.smart_search
engine_smart_search(eng, query, top_k) ==
    IfReady(eng, {[index |-> [eng.index EXCEPT !.obj = r.index], outcome |-> r.outcome] :
                     r \in smart_search(eng.index.obj, query, top_k)})

\* SearchEngine.get_recommendations
engine_get_recommendations(eng, product_id, top_k) ==
    IfReady(eng, {Unchanged(eng, o) : o \in get_similar_products(eng.index.obj, product_id, top_k)})

\* SearchEngine.get_product_details
engine_get_product_details(eng, product_id) ==
    IfReady(eng, {Unchanged(eng, get_product_by_id(eng.index.obj, product_id))})

\* SearchEngine.get_trending_products
engine_get_trending_products(eng, limit) ==
    IfReady(eng, {Unchanged(eng, get_trending_products(eng.index.obj, limit))})

\* SearchEngine.browse_by_category
engine_browse_by_category(eng, category, limit) ==
    IfReady(eng, {Unchanged(eng, get_products_by_category(eng.index.obj, category, limit))})

\* self.index.products[column] followed by a reduction of the column
ProductsColumn(eng, column, Reduce(_)) ==
    IF eng.index.obj.products.is_none THEN Raise(ErrNoneSubscript)
    ELSE Return(Reduce(Column(eng.index.obj.products.rows, column)))

\* SearchEngine.get_categories
engine_get_categories(eng) ==
    IfReady(eng, {Unchanged(eng, ProductsColumn(eng, "Category", Unique))})

\* SearchEngine.get_brands
engine_get_brands(eng) ==
    IfReady(eng, {Unchanged(eng, ProductsColumn(eng, "BrandName", Unique))})

\* SearchEngine.get_price_ranges
engine_get_price_ranges(eng) ==
    IfReady(eng, {Unchanged(eng, ProductsColumn(eng, "price_range", ValueCounts))})

\* SearchEngine.get_data_summary
engine_get_data_summary(eng) ==
    IfReady(eng,
        {Unchanged(eng,
            IF ~eng.preprocessor.is_none /\ ~eng.preprocessor.processed_data.is_none
            THEN Return(get_data_summary(eng.preprocessor.processed_data.rows))
            ELSE IF eng.index.obj.products.is_none
            THEN Raise("TypeError: object of type 'NoneType' has no len()")
            ELSE Return(FallbackSummary(eng.index.obj.products.rows)))})

\* SearchEngine.save_index: the outcome and the file written (the file is
\* left as it was when the call raises).
engine_save_index(eng, file) ==
    IF ~eng.is_ready THEN [outcome |-> Raise(ErrNotReady), file |-> file]
    ELSE LET r == save_index(eng.index.obj)
         IN IF r.error # "" THEN [outcome |-> Raise(r.error), file |-> file]
            ELSE [outcome |-> Return(<<>>), file |-> r.file]

\* SearchEngine.initialize_from_csv: the engine after the call and the
\* outcome.  files maps the paths of the CSV files that exist to their rows.
initialize_from_csv(eng, files, csv_path, rebuild_index) ==
    IF csv_path \notin DOMAIN files
    THEN [eng |-> [eng EXCEPT !.preprocessor = NewPreprocessor(csv_path)],
          outcome |-> Raise("FileNotFoundError")]
    ELSE LET processed_data == process_dataset(files[csv_path])
             pre == [NewPreprocessor(csv_path) EXCEPT !.processed_data = Frame(processed_data)]
             built == build_index(NewProductIndex, processed_data)
         IN IF ~rebuild_index
            THEN [eng |-> [preprocessor |-> pre, index |-> SomeIndex(NewProductIndex),
                           is_ready |-> TRUE],
                  outcome |-> Return(<<>>)]
            ELSE IF built.error # ""
            THEN [eng |-> [preprocessor |-> pre, index |-> SomeIndex(built.index),
                           is_ready |-> eng.is_ready],
                  outcome |-> Raise(built.error)]
            ELSE [eng |-> [preprocessor |-> pre, index |-> SomeIndex(built.index),
                           is_ready |-> TRUE],
                  outcome |-> Return(<<>>)]

\* A load that clears is_ready before reading the file.
load_from_saved_index_resetting(eng, file, csv_path) ==
    LET loaded == load_index(NewProductIndex, file)
    IN [eng |-> [preprocessor |-> NewPreprocessor(csv_path),
                 index |-> SomeIndex(loaded.index),
                 is_ready |-> loaded.error = ""],
        outcome |-> IF loaded.error # "" THEN Raise(loaded.error) ELSE Return(<<>>)]

\* SearchEngine.load_from_saved_index
load_from_saved_index(eng, file, csv_path) ==
    LET loaded == load_index(NewProductIndex, file)
    IN IF loaded.error # ""
       THEN [eng |-> [preprocessor |-> NewPreprocessor(csv_path),
                      index |-> SomeIndex(loaded.index),
                      is_ready |-> eng.is_ready],
             outcome |-> Raise(loaded.error)]
       ELSE [eng |-> [preprocessor |-> NewPreprocessor(csv_path),
                      index |-> SomeIndex(loaded.index),
                      is_ready |-> TRUE],
             outcome |-> Return(<<>>)]

\* -------------------------------------------------------------- input data
\* The raw CSV rows the model draws catalogs from.
RawPool ==
    {[BrandName |-> "zara", Deatils |-> "silk shirt", Sizes |-> "Size:Small,Medium",
      MRP |-> 2000, SellPrice |-> 1000, Discount |-> "50% off",
      Category |-> "Westernwear-Women"],
     [BrandName |-> "zara", Deatils |-> "silk dress", Sizes |-> "Size:Medium,X-Large",
      MRP |-> 2000, SellPrice |-> 2000, Discount |-> "",
      Category |-> "Westernwear-Women"],
     [BrandName |-> "biba", Deatils |-> "the cotton kurta", Sizes |-> "Size:Large",
      MRP |-> 2000, SellPrice |-> 1000, Discount |-> "50% off",
      Category |-> "Indianwear-Women"],
     [BrandName |-> "bata", Deatils |-> "leather boots", Sizes |-> "",
      MRP |-> 4000, SellPrice |-> 0, Discount |-> "",
      Category |-> "Footwear-Women"]}

RECURSIVE SeqsUpTo(_, _)
\* All sequences over S of length at most n.
SeqsUpTo(S, n) ==
    IF n = 0 THEN {<<>>}
    ELSE LET shorter == SeqsUpTo(S, n - 1)
         IN shorter \cup {Append(c, x) : c \in {d \in shorter : Len(d) = n - 1}, x \in S}

\* The catalogs (raw CSV contents) of the index-level specification.
Catalogs == SeqsUpTo(RawPool, MaxRows)

\* Query texts: blank, single terms (one absent from every row, one a stop
\* word), and a two-word query.
Queries == {"", "silk", "kurta", "linen", "the", "silk shirt"}

\* top_k arguments.
TopKs == {IntK(k) : k \in 0..4}

ProductIds == 0..MaxRows

\* ------------------------------------------------------------------- state
VARIABLES
    preprocessor,   \* SearchEngine.preprocessor
    index,          \* SearchEngine.index (in SpecIndex: a bare ProductIndex)
    is_ready,       \* SearchEngine.is_ready
    disk,           \* the file at index_path
    last,           \* the last call: operation, arguments, outcome
    saved,          \* the index object that wrote the file (kept to compare with)
    calls           \* the search calls in flight on the engine, one record each

vars == <<preprocessor, index, is_ready, disk, last, saved, calls>>

NoSaved == [valid |-> FALSE]

\* ------------------------------------- the index-level specification
\* A freshly constructed ProductIndex, one build_index call on it and then
\* either one query call (the query calls change nothing in the index, so one
\* behaviour per catalog and call covers them) or save_index followed by
\* load_index into a fresh ProductIndex.
InitIndex ==
    /\ preprocessor = NoPreprocessor
    /\ index = SomeIndex(NewProductIndex)
    /\ is_ready = FALSE
    /\ disk = NoFile
    /\ last = [op |-> "ProductIndex", args |-> <<>>, outcome |-> Return(<<>>), changed |-> TRUE]
    /\ saved = NoSaved
    /\ calls = <<>>

IxBuild ==
    /\ index.obj.products.is_none
    /\ \E raw_rows \in Catalogs :
        LET r == build_index(index.obj, process_dataset(raw_rows))
        IN /\ index' = SomeIndex(r.index)
           /\ last' = [op |-> "build_index", args |-> <<raw_rows>>,
                       outcome |-> IF r.error = "" THEN Return(<<>>) ELSE Raise(r.error),
                       changed |-> TRUE]
           /\ UNCHANGED <<preprocessor, is_ready, disk, saved, calls>>

IxTextSearch ==
    /\ last.op = "build_index"
    /\ \E query \in Queries, top_k \in TopKs :
        \E o \in text_search(index.obj, query, top_k) :
            /\ last' = [op |-> "text_search", args |-> <<query, top_k>>, outcome |-> o,
                        changed |-> FALSE]
            /\ UNCHANGED <<preprocessor, index, is_ready, disk, saved, calls>>

IxSimilar ==
    /\ last.op = "build_index"
    /\ \E product_id \in ProductIds, top_k \in TopKs :
        \E o \in get_similar_products(index.obj, product_id, top_k) :
            /\ last' = [op |-> "get_similar_products", args |-> <<product_id, top_k>>,
                        outcome |-> o, changed |-> FALSE]
            /\ UNCHANGED <<preprocessor, index, is_ready, disk, saved, calls>>

\* Filter arguments of the index-level calls: each filter alone (different
\* letter case, a pattern with ".", sizes that are entries or parts of
\* entries, a price at a boundary) and two conjunctions.
IndexFilters ==
    {NoFilters,
     [NoFilters EXCEPT !.category = "western"],
     [NoFilters EXCEPT !.category = "WEAR"],
     [NoFilters EXCEPT !.category = "."],
     [NoFilters EXCEPT !.brand = "Zara"],
     [NoFilters EXCEPT !.min_price = Number(950)],
     [NoFilters EXCEPT !.max_price = Number(950)],
     [NoFilters EXCEPT !.material = "silk"],
     [NoFilters EXCEPT !.size = "medium"],
     [NoFilters EXCEPT !.size = "Large"],
     [NoFilters EXCEPT !.size = "l"],
     [NoFilters EXCEPT !.price_range = "budget"],
     [NoFilters EXCEPT !.category = "western", !.max_price = Number(1000)],
     [NoFilters EXCEPT !.brand = "zara", !.material = "silk", !.min_price = Number(1000)]}

IxFilter ==
    /\ last.op = "build_index"
    /\ \E f \in IndexFilters :
        /\ last' = [op |-> "filter_products", args |-> <<f>>,
                    outcome |-> filter_products(index.obj, f), changed |-> FALSE]
        /\ UNCHANGED <<preprocessor, index, is_ready, disk, saved, calls>>

\* Arguments of the index-level search calls: blank and non-blank queries,
\* filters that exclude rows of the catalog, small top_k.
SearchQueries == {"", " ", "silk"}

SearchFilters ==
    {NoFilters,
     [NoFilters EXCEPT !.max_price = Number(950)],
     [NoFilters EXCEPT !.size = "l"],
     [NoFilters EXCEPT !.category = "western", !.max_price = Number(1000)]}

SearchTopKs == {IntK(0), IntK(2)}

\* Queries with several keywords of one table, in an order other than the
\* table's, and with none.
SmartQueries ==
    {"indian western silk", "luxury budget linen cotton kurta", "midi silk dress", "kurta"}

\* SearchEngine.search on the built index (the body after the is_ready check).
IxSearch ==
    /\ last.op = "build_index"
    /\ \E query \in SearchQueries, f \in SearchFilters, top_k \in SearchTopKs :
        \E r \in search(index.obj, query, f, top_k) :
            /\ index' = SomeIndex(r.index)
            /\ last' = [op |-> "search", args |-> <<query, f, top_k>>, outcome |-> r.outcome,
                        changed |-> r.index # index.obj]
            /\ UNCHANGED <<preprocessor, is_ready, disk, saved, calls>>

\* SearchEngine.smart_search on the built index.
IxSmartSearch ==
    /\ last.op = "build_index"
    /\ \E query \in SmartQueries, top_k \in SearchTopKs :
        \E r \in smart_search(index.obj, query, top_k) :
            /\ index' = SomeIndex(r.index)
            /\ last' = [op |-> "smart_search", args |-> <<query, top_k>>, outcome |-> r.outcome,
                        changed |-> r.index # index.obj]
            /\ UNCHANGED <<preprocessor, is_ready, disk, saved, calls>>

TrendingLimits == {0, 1, 2, MaxRows}

IxTrending ==
    /\ last.op = "build_index"
    /\ \E limit \in TrendingLimits :
        /\ last' = [op |-> "get_trending_products", args |-> <<limit>>,
                    outcome |-> get_trending_products(index.obj, limit), changed |-> FALSE]
        /\ UNCHANGED <<preprocessor, index, is_ready, disk, saved, calls>>

\* The same rows placed in other positions: the rows from the last to the first.
Reordered(rows) == Reverse(rows)

\* The position in Reordered(rows) of the row at position p of the n rows.
NewPosition(p, n) == n + 1 - p

\* A second ProductIndex is built from the same CSV rows in another order.
IxReorder ==
    /\ last.op = "build_index"
    /\ ~last.outcome.raised
    /\ LET r == build_index(NewProductIndex, process_dataset(Reordered(last.args[1])))
       IN /\ saved' = [valid |-> r.error = "", index |-> r.index]
          /\ last' = [op |-> "reorder", args |-> <<>>, outcome |-> Return(<<>>),
                      changed |-> TRUE]
          /\ UNCHANGED <<preprocessor, index, is_ready, disk, calls>>

PairTopKs == {IntK(1), IntK(2)}

\* get_similar_products for the same reference row and top_k on both indexes.
IxSimilarOnBoth ==
    /\ last.op = "reorder"
    /\ saved.valid
    /\ \E p \in DOMAIN index.obj.products.rows, top_k \in PairTopKs :
        LET q == NewPosition(p, Len(index.obj.products.rows))
        IN \E o1 \in get_similar_products(index.obj, p - 1, top_k),
              o2 \in get_similar_products(saved.index, q - 1, top_k) :
            /\ last' = [op |-> "get_similar_products_on_both",
                        args |-> <<p - 1, q - 1, top_k>>,
                        outcome |-> Return(<<o1, o2>>), changed |-> FALSE]
            /\ UNCHANGED <<preprocessor, index, is_ready, disk, saved, calls>>

IxSave ==
    /\ last.op = "build_index"
    /\ LET r == save_index(index.obj)
       IN /\ disk' = IF r.error = "" THEN r.file ELSE disk
          /\ saved' = [valid |-> TRUE, index |-> index.obj]
          /\ last' = [op |-> "save_index", args |-> <<>>,
                      outcome |-> IF r.error = "" THEN Return(<<>>) ELSE Raise(r.error),
                      changed |-> TRUE]
          /\ UNCHANGED <<preprocessor, index, is_ready, calls>>

IxLoad ==
    /\ last.op = "save_index"
    /\ LET r == load_index(NewProductIndex, disk)
       IN /\ index' = SomeIndex(r.index)
          /\ last' = [op |-> "load_index", args |-> <<>>,
                      outcome |-> IF r.error = "" THEN Return(<<>>) ELSE Raise(r.error),
                      changed |-> TRUE]
          /\ UNCHANGED <<preprocessor, is_ready, disk, saved, calls>>

NextIndex ==
    \/ IxBuild
    \/ IxTextSearch
    \/ IxSimilar
    \/ IxFilter
    \/ IxSearch
    \/ IxSmartSearch
    \/ IxTrending
    \/ IxReorder
    \/ IxSimilarOnBoth
    \/ IxSave
    \/ IxLoad

SpecIndex == InitIndex /\ [][NextIndex]_vars

\* ------------------------------------------- the engine specification
\* The CSV files that exist: a catalog the index builds from, and one too
\* small for max_df = 0.8 / min_df = 2 (fit_transform raises).
CsvFiles ==
    LET row(d) == CHOOSE r \in RawPool : r.Deatils = d
    IN ("shop.csv" :> <<row("silk shirt"), row("silk dress"), row("the cotton kurta")>>)
       @@ ("tiny.csv" :> <<row("silk shirt"), row("leather boots")>>)

CsvPaths == DOMAIN CsvFiles \cup {"missing.csv"}

EngineQueries == {"silk", "premium silk dress"}

EngineTopKs == {IntK(2), NonInt}

EngineFilters ==
    {NoFilters,
     [NoFilters EXCEPT !.max_price = Number(1000)]}

\* Product ids asked for: one that shop.csv holds and one no catalog holds.
EngineProductIds == {0, 9}

Engine == [preprocessor |-> preprocessor, index |-> index, is_ready |-> is_ready]

\* The caller issues the next call from a state a call has changed; after a
\* call that changed nothing the engine is in a state already covered, with
\* only the record of the last call differing.
Fresh == last.changed

Call(op, args, outcome, changed) ==
    [op |-> op, args |-> args, outcome |-> outcome, changed |-> changed]

\* SearchEngine.__init__ of the first instance.
Init ==
    /\ preprocessor = NoPreprocessor
    /\ index = NoIndex
    /\ is_ready = FALSE
    /\ disk = NoFile
    /\ last = Call("__init__", <<>>, Return(<<>>), TRUE)
    /\ saved = NoSaved
    /\ calls = <<>>

\* A new process constructs its own SearchEngine; the file on disk stays.
NewEngine ==
    /\ Fresh
    /\ preprocessor' = NoPreprocessor
    /\ index' = NoIndex
    /\ is_ready' = FALSE
    /\ last' = Call("__init__", <<>>, Return(<<>>), TRUE)
    /\ UNCHANGED <<disk, saved, calls>>

InitializeFromCsv ==
    /\ Fresh
    /\ \E csv_path \in CsvPaths, rebuild_index \in BOOLEAN :
        LET r == initialize_from_csv(Engine, CsvFiles, csv_path, rebuild_index)
        IN /\ preprocessor' = r.eng.preprocessor
           /\ index' = r.eng.index
           /\ is_ready' = r.eng.is_ready
           /\ last' = Call("initialize_from_csv", <<csv_path, rebuild_index>>, r.outcome,
                           r.eng # Engine)
           /\ UNCHANGED <<disk, saved, calls>>

LoadFromSavedIndex ==
    /\ Fresh
    /\ \E csv_path \in {"shop.csv"} :
        LET r == load_from_saved_index(Engine, disk, csv_path)
        IN /\ preprocessor' = r.eng.preprocessor
           /\ index' = r.eng.index
           /\ is_ready' = r.eng.is_ready
           /\ last' = Call("load_from_saved_index", <<csv_path>>, r.outcome, r.eng # Engine)
           /\ UNCHANGED <<disk, saved, calls>>

\* A query operation: one of its results becomes the state.
Query(op, args, results) ==
    \E r \in results :
        /\ index' = r.index
        /\ last' = Call(op, args, r.outcome, r.index # index)
        /\ UNCHANGED <<preprocessor, is_ready, disk, saved, calls>>

Search ==
    /\ Fresh
    /\ \E query \in EngineQueries, f \in EngineFilters, top_k \in EngineTopKs :
        Query("search", <<query, f, top_k>>, engine_search(Engine, query, f, top_k))

SmartSearch ==
    /\ Fresh
    /\ \E query \in EngineQueries, top_k \in EngineTopKs :
        Query("smart_search", <<query, top_k>>, engine_smart_search(Engine, query, top_k))

GetRecommendations ==
    /\ Fresh
    /\ \E product_id \in EngineProductIds, top_k \in EngineTopKs :
        Query("get_recommendations", <<product_id, top_k>>,
              engine_get_recommendations(Engine, product_id, top_k))

GetProductDetails ==
    /\ Fresh
    /\ \E product_id \in EngineProductIds :
        Query("get_product_details", <<product_id>>,
              engine_get_product_details(Engine, product_id))

GetTrendingProducts ==
    /\ Fresh
    /\ \E limit \in {0, 2} :
        Query("get_trending_products", <<limit>>, engine_get_trending_products(Engine, limit))

BrowseByCategory ==
    /\ Fresh
    /\ \E category \in {"Western Wear", "wear"}, limit \in {1} :
        Query("browse_by_category", <<category, limit>>,
              engine_browse_by_category(Engine, category, limit))

GetCategories ==
    /\ Fresh
    /\ Query("get_categories", <<>>, engine_get_categories(Engine))

GetBrands ==
    /\ Fresh
    /\ Query("get_brands", <<>>, engine_get_brands(Engine))

GetPriceRanges ==
    /\ Fresh
    /\ Query("get_price_ranges", <<>>, engine_get_price_ranges(Engine))

GetDataSummary ==
    /\ Fresh
    /\ Query("get_data_summary", <<>>, engine_get_data_summary(Engine))

SaveIndex ==
    /\ Fresh
    /\ LET r == engine_save_index(Engine, disk)
       IN /\ disk' = r.file
          /\ last' = Call("save_index", <<>>, r.outcome, r.file # disk)
          /\ UNCHANGED <<preprocessor, index, is_ready, saved, calls>>

\* The parts a bundle on disk may lose: one read in the middle of load_index
\* and the one read last.
DamagedKeys == {"tfidf_matrix", "feature_weights"}

\* The environment: the bundle on disk loses one of its parts (a truncated or
\* foreign file).
DamageBundle ==
    /\ Fresh
    /\ disk.exists
    /\ disk.keys = BundleKeys
    /\ \E k \in DamagedKeys :
        /\ disk' = [disk EXCEPT !.keys = @ \ {k}]
        /\ last' = Call("damage", <<k>>, Return(<<>>), TRUE)
        /\ UNCHANGED <<preprocessor, index, is_ready, saved, calls>>

Next ==
    \/ NewEngine
    \/ InitializeFromCsv
    \/ LoadFromSavedIndex
    \/ Search
    \/ SmartSearch
    \/ GetRecommendations
    \/ GetProductDetails
    \/ GetTrendingProducts
    \/ BrowseByCategory
    \/ GetCategories
    \/ GetBrands
    \/ GetPriceRanges
    \/ GetDataSummary
    \/ SaveIndex
    \/ DamageBundle

Spec == Init /\ [][Next]_vars

\* ------------------------------------------- product-type extraction
\* shopping_assistant/preprocessor.py: TAXONOMY, _wb, CANONICAL_PATTERNS,
\* DataPreprocessor._extract_product_type and _post_rules.  A text is a
\* sequence of lower-case words, a word possibly followed by a comma; the
\* string the code sees is the words joined by single spaces, so lower() and
\* the whitespace normalisation change nothing.
MaxWords == 4

\* A text takes its words from one of these word lists.
Vocabularies ==
    {{"kurta", "dupatta", "palazzo", "heels", "flats", "ballet"},
     {"denim", "jacket", "jacket,", "jeans", "oxford"}}

Words == UNION Vocabularies

\* The word without the comma that follows it.
Bare(w) ==
    IF Len(w) > 0 /\ SubSeq(w, Len(w), Len(w)) = "," THEN SubSeq(w, 1, Len(w) - 1) ELSE w

\* The entries of TAXONOMY that rules 2-4 of _post_rules speak of and those
\* an alias of which is made of words of Words, in table order, each alias as
\* its words.  No alias of an entry left out can match a
\* text over Words.
TAXONOMY ==
    << [canon |-> "jacket", aliases |-> << <<"jacket">>, <<"bomber">>, <<"puffer">>,
                                           <<"denim", "jacket">>, <<"biker", "jacket">> >>],
       [canon |-> "ethnic set", aliases |-> << <<"suit", "set">>, <<"indian", "wear", "set">>,
                                               <<"kurta", "set">>, <<"straight", "suit", "set">>,
                                               <<"ethnic", "set">>, <<"clothing", "set">>,
                                               <<"coordinate", "set">> >>],
       [canon |-> "shirt", aliases |-> << <<"shirt">>, <<"button", "down">>, <<"button-down">>,
                                          <<"oxford">> >>],
       [canon |-> "kurta", aliases |-> << <<"kurta">>, <<"kurti">> >>],
       [canon |-> "pants", aliases |-> << <<"pant">>, <<"pants">>, <<"chino">>, <<"chinos">>,
                                          <<"formal", "pants">>, <<"casual", "pants">>,
                                          <<"paper", "bag", "pants">> >>],
       [canon |-> "trousers", aliases |-> << <<"trouser">>, <<"trousers">> >>],
       [canon |-> "leggings", aliases |-> << <<"legging">>, <<"leggings">>, <<"churidar">> >>],
       [canon |-> "jeans", aliases |-> << <<"jean">>, <<"jeans">>, <<"denim">> >>],
       [canon |-> "palazzo", aliases |-> << <<"palazzo">> >>],
       [canon |-> "dhoti pants", aliases |-> << <<"dhoti", "pant">>, <<"dhoti", "pants">> >>],
       [canon |-> "salwar", aliases |-> << <<"salwar">>, <<"shalwar">> >>],
       [canon |-> "salwar suit", aliases |-> << <<"salwar", "suit">>, <<"unstitched", "suit">> >>],
       [canon |-> "choli", aliases |-> << <<"choli">> >>],
       [canon |-> "dupatta", aliases |-> << <<"dupatta">> >>],
       [canon |-> "sharara", aliases |-> << <<"sharara">> >>],
       [canon |-> "slides", aliases |-> << <<"slides">>, <<"slide">> >>],
       [canon |-> "loafers", aliases |-> << <<"loafers">>, <<"loafer">> >>],
       [canon |-> "mules", aliases |-> << <<"mules">>, <<"mule">> >>],
       [canon |-> "wedges", aliases |-> << <<"wedges">>, <<"wedge">> >>],
       [canon |-> "platforms", aliases |-> << <<"platforms">>, <<"platform">> >>],
       [canon |-> "brogues", aliases |-> << <<"brogues">>, <<"oxford">>, <<"oxfords">> >>],
       [canon |-> "bellies", aliases |-> << <<"bellies">>, <<"ballet", "flats">>,
                                            <<"ballet", "flat">> >>],
       [canon |-> "peep toes", aliases |-> << <<"peep", "toes">>, <<"peep", "toe">> >>],
       [canon |-> "clogs", aliases |-> << <<"clogs">>, <<"clog">> >>],
       [canon |-> "floaters", aliases |-> << <<"floaters">>, <<"floater">> >>],
       [canon |-> "slip-ons", aliases |-> << <<"slip-ons">>, <<"slip", "ons">>, <<"slip", "on">> >>],
       [canon |-> "shoes", aliases |-> << <<"shoes">>, <<"shoe">> >>],
       [canon |-> "heels", aliases |-> << <<"heels">>, <<"heel">>, <<"stiletto">>, <<"stilettos">>,
                                          <<"pump">>, <<"pumps">> >>],
       [canon |-> "flats", aliases |-> << <<"flats">>, <<"flat">>, <<"ballerina">>,
                                          <<"ballerinas">> >>],
       [canon |-> "boots", aliases |-> << <<"boots">>, <<"boot">> >>],
       [canon |-> "sandals", aliases |-> << <<"sandals">>, <<"sandal">> >>],
       [canon |-> "sneakers", aliases |-> << <<"sneakers">>, <<"sneaker">>, <<"trainers">>,
                                             <<"trainer">> >>] >>

\* _wb: the optional plural (?:e?s)? is added when the escaped alias does not
\* end in s and is alphabetic as a whole, which an alias of several words (its
\* separator is a character class) or with a hyphen is not.
PluralAllowed(alias) ==
    /\ Len(alias) = 1
    /\ ~Contains(alias[1], "-")
    /\ SubSeq(alias[1], Len(alias[1]), Len(alias[1])) # "s"

\* \b<alias>\b at word i of the text: the words of the alias with nothing but
\* [\s-]+ between them; a comma may follow the match.
\* (tokens: each word of the text with its bare form.)
AliasMatchesAt(alias, tokens, i) ==
    /\ i + Len(alias) - 1 <= Len(tokens)
    /\ IF Len(alias) = 1
       THEN LET w == tokens[i].bare
            IN \/ w = alias[1]
               \/ /\ Len(w) > Len(alias[1])
                  /\ PluralAllowed(alias)
                  /\ w \in {alias[1] \o "s", alias[1] \o "es"}
       ELSE /\ \A j \in 1..(Len(alias) - 1) : tokens[i + j - 1].word = alias[j]
            /\ tokens[i + Len(alias) - 1].bare = alias[Len(alias)]

\* The alternation a1|a2|... takes the first alias that matches at a position;
\* 0 when none does.
FirstAliasAt(aliases, tokens, i) ==
    IF \E k \in DOMAIN aliases : AliasMatchesAt(aliases[k], tokens, i)
    THEN SetMin({k \in DOMAIN aliases : AliasMatchesAt(aliases[k], tokens, i)})
    ELSE 0

\* Character offset at which word i starts, and at which it ends.
RECURSIVE WordStart(_, _)
WordStart(tokens, i) ==
    IF i = 1 THEN 0 ELSE WordStart(tokens, i - 1) + Len(tokens[i - 1].word) + 1

WordEnd(tokens, i) == WordStart(tokens, i) + Len(tokens[i].bare)

\* pat.finditer(text): the matches of one canonical's pattern from word i on,
\* left to right and non-overlapping, as (canon, span).
RECURSIVE FindIter(_, _, _)
FindIter(entry, tokens, i) ==
    IF i > Len(tokens) THEN <<>>
    ELSE LET k == FirstAliasAt(entry.aliases, tokens, i)
         IN IF k = 0 THEN FindIter(entry, tokens, i + 1)
            ELSE LET last_word == i + Len(entry.aliases[k]) - 1
                 IN <<[canon |-> entry.canon, a |-> WordStart(tokens, i),
                       b |-> WordEnd(tokens, last_word)]>>
                    \o FindIter(entry, tokens, last_word + 1)

Tokens(words) == [i \in DOMAIN words |-> [word |-> words[i], bare |-> Bare(words[i])]]

\* Step 1: every candidate match of every canonical.
Candidates(words) ==
    LET tokens == Tokens(words)
    IN UNION {Range(FindIter(TAXONOMY[e], tokens, 1)) : e \in DOMAIN TAXONOMY}

\* Python's order on str, by code point, for the characters of the canonical names.
CodePoints == " -/abcdefghijklmnopqrstuvwxyz"

CodePoint(c) == CHOOSE i \in 1..Len(CodePoints) : SubSeq(CodePoints, i, i) = c

RECURSIVE StrLess(_, _)
StrLess(x, y) ==
    IF Len(y) = 0 THEN FALSE
    ELSE IF Len(x) = 0 THEN TRUE
    ELSE IF SubSeq(x, 1, 1) = SubSeq(y, 1, 1)
         THEN StrLess(SubSeq(x, 2, Len(x)), SubSeq(y, 2, Len(y)))
    ELSE CodePoint(SubSeq(x, 1, 1)) < CodePoint(SubSeq(y, 1, 1))

\* A sort that puts the shortest match first.
KeyLessShortestFirst(x, y) ==
    \/ x.b - x.a < y.b - y.a
    \/ /\ x.b - x.a = y.b - y.a
       /\ \/ x.a < y.a
          \/ x.a = y.a /\ StrLess(x.canon, y.canon)

\* The sort key (-(b - a), a, canon) of x is below that of y.
KeyLess(x, y) ==
    \/ x.b - x.a > y.b - y.a
    \/ /\ x.b - x.a = y.b - y.a
       /\ \/ x.a < y.a
          \/ x.a = y.a /\ StrLess(x.canon, y.canon)

\* Step 2: candidates.sort(key=...); no two candidates have the same key.
RECURSIVE SortCandidates(_)
SortCandidates(S) ==
    IF S = {} THEN <<>>
    ELSE LET first == CHOOSE x \in S : \A y \in S \ {x} : KeyLess(x, y)
         IN <<first>> \o SortCandidates(S \ {first})

SpansOverlap(x, y) == ~(x.b <= y.a \/ x.a >= y.b)

\* Step 3: the candidates accepted in sorted order, each one only if its span
\* overlaps no span accepted before it.
RECURSIVE ResolveOverlaps(_, _)
ResolveOverlaps(sorted, occupied) ==
    IF sorted = <<>> THEN <<>>
    ELSE IF \E k \in DOMAIN occupied : SpansOverlap(sorted[1], occupied[k])
         THEN ResolveOverlaps(Tail(sorted), occupied)
    ELSE <<sorted[1]>> \o ResolveOverlaps(Tail(sorted), Append(occupied, sorted[1]))

Accepted(words) == ResolveOverlaps(SortCandidates(Candidates(words)), <<>>)

\* picked: the canonical of each accepted candidate, in acceptance order.
PickedOf(accepted) == [i \in DOMAIN accepted |-> accepted[i].canon]

Picked(words) == PickedOf(Accepted(words))

\* t = " " + re.sub(r"\s+", " ", text.lower()) + " "
PaddedText(words) == " " \o JoinSpace(words) \o " "

\* Rules 1 and 2, applied by _extract_product_type and again by _post_rules.
TracksuitRule(t, L) ==
    IF Contains(t, " tracksuit ") \/ Contains(t, " track suit ")
    THEN (L \ {"track pants"}) \cup {"tracksuit"}
    ELSE L

DenimJacketGuard(t, L) ==
    IF Contains(t, " denim jacket ") THEN L \ {"jeans"} ELSE L

bottoms == {"salwar", "palazzo", "trousers", "leggings", "pants", "dhoti pants", "sharara"}

\* The kurta-set collapse leaving the bottom-wear labels in place.
KurtaSetRuleKeepingBottoms(L) ==
    IF "kurta" \in L /\ ("dupatta" \in L \/ "choli" \in L) /\ L \cap bottoms # {}
    THEN (L \ {"kurta", "dupatta", "choli"}) \cup {"salwar suit"}
    ELSE IF "kurta" \in L /\ L \cap bottoms # {}
    THEN L \cup {"ethnic set"}
    ELSE L

\* The kurta-set rule with track pants counted as bottom wear.
KurtaSetRuleWithTrackPants(L) ==
    LET wider == bottoms \cup {"track pants"}
    IN IF "kurta" \in L /\ ("dupatta" \in L \/ "choli" \in L) /\ L \cap wider # {}
       THEN (L \ ({"kurta", "dupatta", "choli"} \cup wider)) \cup {"salwar suit"}
       ELSE IF "kurta" \in L /\ L \cap wider # {}
       THEN L \cup {"ethnic set"}
       ELSE L

\* Rule 3: kurta-set collapse, else the looser pairing.
KurtaSetRule(L) ==
    IF "kurta" \in L /\ ("dupatta" \in L \/ "choli" \in L) /\ L \cap bottoms # {}
    THEN (L \ ({"kurta", "dupatta", "choli"} \cup bottoms)) \cup {"salwar suit"}
    ELSE IF "kurta" \in L /\ L \cap bottoms # {}
    THEN L \cup {"ethnic set"}
    ELSE L

specific ==
    {"heels", "wedges", "sandals", "boots", "sneakers", "peep toes", "mules", "loafers",
     "platforms", "clogs", "slides", "floaters", "bellies", "brogues"}

generic == {"slip-ons", "shoes", "flats"}

\* The footwear rule without its removal.
FootwearRuleKeepingGenerics(L) == L

\* Rule 4: footwear specificity.
FootwearRule(L) ==
    IF L \cap specific # {} THEN L \ generic ELSE L

\* Rule 5: jewelry de-dup.
JewelryRule(L) ==
    IF "necklace" \in L /\ "pendant" \in L THEN L \ {"pendant"} ELSE L

\* The label set L at the end of the five rules.
RuledLabels(t, labels) ==
    JewelryRule(FootwearRule(KurtaSetRule(DenimJacketGuard(t, TracksuitRule(t, labels)))))

\* [x for x in labels if x in L and not (x in seen or seen.add(x))]
RECURSIVE KeptInOrder(_, _, _)
KeptInOrder(labels, L, seen) ==
    IF labels = <<>> THEN <<>>
    ELSE IF labels[1] \in L /\ labels[1] \notin seen
         THEN <<labels[1]>> \o KeptInOrder(Tail(labels), L, seen \cup {labels[1]})
    ELSE KeptInOrder(Tail(labels), L, seen)

\* The orders in which iterating a Python set of str can yield its elements
\* (str hashes are salted per process).
RECURSIVE SetIterationOrders(_)
SetIterationOrders(S) ==
    IF S = {} THEN {<<>>}
    ELSE UNION {{<<x>> \o rest : rest \in SetIterationOrders(S \ {x})} : x \in S}

\* The return value of _post_rules for the rule-adjusted set L: the labels of
\* the list that are in L, then the labels of L not in the list.
OrderedLabels(labels, L) ==
    LET ordered == KeptInOrder(labels, L, {})
    IN {ordered \o added : added \in SetIterationOrders(L \ Range(ordered))}

\* _post_rules(text, labels): the lists it can return.
post_rules(words, labels) ==
    OrderedLabels(labels, RuledLabels(PaddedText(words), Range(labels)))

\* Step 4 of _extract_product_type on the picked labels: the lists it can return.
PostPicked(words, picked) ==
    LET t == PaddedText(words)
        labels == DenimJacketGuard(t, TracksuitRule(t, Range(picked)))
    IN UNION {post_rules(words, listed) : listed \in SetIterationOrders(labels)}

\* _extract_product_type(text): the lists it can return.
extract_product_type(words) == PostPicked(words, Picked(words))

\* ------------------------------------- the extraction specification
\* A Details text grows word by word; _extract_product_type is applied to it
\* (the call is recorded with the text, the labels picked in step 3, the
\* candidates of step 1 and the candidates accepted in step 3).
InitExtract ==
    /\ preprocessor = NoPreprocessor
    /\ index = NoIndex
    /\ is_ready = FALSE
    /\ disk = NoFile
    /\ last = [op |-> "Details", args |-> <<>>, outcome |-> Return(<<>>), changed |-> FALSE]
    /\ saved = NoSaved
    /\ calls = <<>>

TxAppendWord ==
    /\ last.op = "Details"
    /\ Len(last.args) < MaxWords
    /\ \E w \in Words :
        /\ \E V \in Vocabularies : Range(last.args) \cup {w} \subseteq V
        /\ last' = [last EXCEPT !.args = Append(@, w)]
        /\ UNCHANGED <<preprocessor, index, is_ready, disk, saved, calls>>

\* Steps 1-3 of _extract_product_type on the text.
TxResolveOverlaps ==
    /\ last.op = "Details"
    /\ LET candidates == Candidates(last.args)
           accepted == ResolveOverlaps(SortCandidates(candidates), <<>>)
           picked == PickedOf(accepted)
       IN /\ last' = [op |-> "resolve_overlaps",
                      args |-> <<last.args, picked, candidates, accepted>>,
                      outcome |-> Return(picked), changed |-> FALSE]
          /\ UNCHANGED <<preprocessor, index, is_ready, disk, saved, calls>>

\* Step 4 and the return of _extract_product_type.
TxExtractProductType ==
    /\ last.op = "resolve_overlaps"
    /\ \E out \in PostPicked(last.args[1], last.args[2]) :
        /\ last' = [op |-> "_extract_product_type", args |-> last.args,
                    outcome |-> Return(out), changed |-> FALSE]
        /\ UNCHANGED <<preprocessor, index, is_ready, disk, saved, calls>>

NextExtract ==
    \/ TxAppendWord
    \/ TxResolveOverlaps
    \/ TxExtractProductType

SpecExtract == InitExtract /\ [][NextExtract]_vars

\* ------------------------------------- the rule-pass specification
\* The five rules of _post_rules applied one at a time, in any order, to a
\* label set and a text, and then a second time.
MaxLabels == 4

\* Longest raw price table of the normalisation specification.
MaxRawRows == 3

\* Longest catalog of the price-keyword specification.
MaxSmartRows == 3

LabelPool ==
    {"track pants", "jeans", "kurta", "dupatta", "palazzo", "heels", "flats", "necklace",
     "pendant"}

LabelSets == {S \in SUBSET LabelPool : Cardinality(S) <= MaxLabels}

RuleTexts ==
    {<<>>, <<"tracksuit">>, <<"denim", "jacket">>, <<"tracksuit", "denim", "jacket">>}

RuleNames == {"tracksuit", "denim jacket", "kurta set", "footwear", "jewelry"}

InitRules ==
    /\ preprocessor = NoPreprocessor
    /\ index = NoIndex
    /\ is_ready = FALSE
    /\ disk = NoFile
    /\ saved = NoSaved
    /\ calls = <<>>
    /\ \E words \in RuleTexts, labels \in LabelSets :
        last = [op |-> "_post_rules", args |-> <<words, labels>>,
                outcome |-> Return([L |-> labels, applied |-> {}, pass |-> 1,
                                    last_rule |-> ""]),
                changed |-> FALSE]

\* One rule of the pass takes L to new_L.
ApplyRule(rule, new_L) ==
    /\ rule \notin last.outcome.value.applied
    /\ last' = [last EXCEPT !.outcome.value.L = new_L,
                            !.outcome.value.applied = @ \cup {rule},
                            !.outcome.value.last_rule = rule]
    /\ UNCHANGED <<preprocessor, index, is_ready, disk, saved, calls>>

RuleTracksuit ==
    ApplyRule("tracksuit", TracksuitRule(PaddedText(last.args[1]), last.outcome.value.L))

RuleDenimJacket ==
    ApplyRule("denim jacket", DenimJacketGuard(PaddedText(last.args[1]), last.outcome.value.L))

RuleKurtaSet == ApplyRule("kurta set", KurtaSetRule(last.outcome.value.L))

RuleFootwear == ApplyRule("footwear", FootwearRule(last.outcome.value.L))

RuleJewelry == ApplyRule("jewelry", JewelryRule(last.outcome.value.L))

\* The pass is run again on its own result.
RulePassAgain ==
    /\ last.outcome.value.applied = RuleNames
    /\ last.outcome.value.pass = 1
    /\ last' = [last EXCEPT !.outcome.value.applied = {},
                            !.outcome.value.pass = 2,
                            !.outcome.value.last_rule = ""]
    /\ UNCHANGED <<preprocessor, index, is_ready, disk, saved, calls>>

NextRules ==
    \/ RuleTracksuit
    \/ RuleDenimJacket
    \/ RuleKurtaSet
    \/ RuleFootwear
    \/ RuleJewelry
    \/ RulePassAgain

SpecRules == InitRules /\ [][NextRules]_vars

\* ================================================================ claims
\* The operations of SearchEngine that start with the is_ready check.
GuardedOps ==
    {"search", "smart_search", "get_recommendations", "get_product_details",
     "get_trending_products", "browse_by_category", "get_categories", "get_brands",
     "get_price_ranges", "get_data_summary", "save_index"}

\* C1: every SearchEngine query operation (and save_index) called while the
\* engine is not ready raises the precondition error and leaves preprocessor,
\* index and is_ready (and the file on disk) as they were.
C1_NotReadyRaisesPrecondition ==
    [][(~is_ready /\ last'.op \in GuardedOps)
          => /\ last'.outcome = Raise(ErrNotReady)
             /\ UNCHANGED <<preprocessor, index, is_ready, disk>>]_vars

\* C1 witness: save_index was called on an engine that is not ready and holds
\* a half-built index, and raised the precondition error.
C1_Witness ==
    /\ ~is_ready
    /\ ~index.is_none
    /\ last.op = "save_index"
    /\ last.outcome = Raise(ErrNotReady)

\* C2 (as stated): after every search call on a ready engine, returning or
\* raising, the index is the one installed before the call.
C2_SearchLeavesIndexInstalled ==
    [][(is_ready /\ last'.op = "search") => index' = index]_vars

\* C7: once is_ready is true on an instance it stays true through every later
\* call on that instance, failing initialize/load calls included.
C7_ReadyIsOneWay ==
    [][(is_ready /\ last'.op # "__init__") => is_ready']_vars

\* C7 witness: a ready engine after a load_from_saved_index call that raised.
C7_Witness ==
    /\ is_ready
    /\ last.op = "load_from_saved_index"
    /\ last.outcome.raised

\* A bundle on disk that lacks a required part: a key of the pickled dict is
\* gone, or the product table, the term matrix or the vectorizer is None.
LacksPart(file) ==
    /\ file.exists
    /\ \/ file.keys # BundleKeys
       \/ file.products.is_none
       \/ file.tfidf_matrix.is_none
       \/ file.tfidf_vectorizer.state = "None"

\* C8 (as stated): load_from_saved_index of a bundle that lacks a required
\* part raises inside the load call and does not mark the engine ready.
C8_LoadRejectsIncompleteBundle ==
    [][(last'.op = "load_from_saved_index" /\ LacksPart(disk))
          => /\ last'.outcome.raised
             /\ is_ready' => is_ready]_vars

\* The product ids the index of a ready engine holds.
KnownIds(ix) ==
    IF ix.products.is_none THEN {}
    ELSE {ix.products.rows[p].product_id : p \in DOMAIN ix.products.rows}

\* A not-found signal: the not-found error of get_similar_products, or the
\* None that get_product_by_id returns.
NotFoundSignal(outcome) == outcome = Raise(ErrNotFound) \/ outcome = Return(<<>>)

\* C10 (as stated): an unknown product_id given to get_recommendations or
\* get_product_details on a ready engine is signaled as not found, not as the
\* not-ready / index-not-built precondition error, and the index is unchanged.
C10_UnknownIdIsNotFound ==
    [][(/\ is_ready
        /\ last'.op \in {"get_recommendations", "get_product_details"}
        /\ last'.args[1] \notin KnownIds(index.obj))
          => /\ NotFoundSignal(last'.outcome)
             /\ index' = index]_vars

\* ------------------------------------------------- catalog normalisation
\* The two preprocessors of the repository: indexing/data_preprocessor.py
\* (process_dataset, feeding the search index) and preprocessor.py (process,
\* feeding ingest_sqlite.py).

\* DataPreprocessor.clean_price_columns of data_preprocessor.py: the MRP column
\* goes through astype(float), which raises on a cell that is not a number;
\* the SellPrice column is coerced.  process_dataset calls it first.
clean_price_columns(raw_rows) ==
    IF \E i \in DOMAIN raw_rows : raw_rows[i].MRP = Unparseable
    THEN Raise("ValueError")
    ELSE Return(process_dataset(raw_rows))

\* DataPreprocessor._clean_prices of preprocessor.py on one row: both columns
\* coerced, converted and rounded, then sell_price backfilled from MRP.
clean_prices(raw) ==
    LET mrp == ConvertPrice(to_numeric(raw.MRP))
        sell == ConvertPrice(to_numeric(raw.SellPrice))
    IN [MRP |-> mrp, sell_price |-> IF sell = NaN THEN mrp ELSE sell]

\* _price_bucket with every boundary price in the bucket below it.
price_bucket_inclusive(price) ==
    IF price = NaN THEN "unknown"
    ELSE IF price <= 500 THEN "budget"
    ELSE IF price <= 1500 THEN "mid-range"
    ELSE IF price <= 3000 THEN "premium"
    ELSE "luxury"

\* DataPreprocessor._price_bucket of preprocessor.py, the price in pence.
price_bucket(price) ==
    IF price = NaN THEN "unknown"
    ELSE IF price < 500 THEN "budget"
    ELSE IF price < 1500 THEN "mid-range"
    ELSE IF price < 3000 THEN "premium"
    ELSE "luxury"

UpperChar(c) ==
    IF \E i \in DOMAIN LowerCase : LowerCase[i] = c
    THEN UpperCase[CHOOSE i \in DOMAIN LowerCase : LowerCase[i] = c]
    ELSE c

RECURSIVE TitleFrom(_, _)
\* str.title from a position on: a letter that follows a non-letter is
\* upper-cased, every other letter lower-cased.
TitleFrom(s, after_letter) ==
    IF Len(s) = 0 THEN ""
    ELSE LET c == SubSeq(s, 1, 1)
             letter == c \notin Separators
         IN (IF ~letter THEN c ELSE IF after_letter THEN LowerChar(c) ELSE UpperChar(c))
            \o TitleFrom(SubSeq(s, 2, Len(s)), letter)

Title(s) == TitleFrom(s, FALSE)

RECURSIVE ReplaceSeparators(_)
\* cleaned.replace("&", " and ").replace("-", " ")
ReplaceSeparators(s) ==
    IF Len(s) = 0 THEN ""
    ELSE LET c == SubSeq(s, 1, 1)
         IN (IF c = "&" THEN " and " ELSE IF c = "-" THEN " " ELSE c)
            \o ReplaceSeparators(SubSeq(s, 2, Len(s)))

\* DataPreprocessor._clean_category of preprocessor.py (the same table as
\* clean_categories; the label is title-cased on the way out).
clean_category(cat) ==
    LET cleaned == Strip(Lower(cat))
        hit == {i \in DOMAIN CategoryMapping : CategoryMapping[i][1] = cleaned}
        label == IF hit # {} THEN CategoryMapping[CHOOSE i \in hit : TRUE][2]
                 ELSE ReplaceSeparators(cleaned)
    IN IF label # "" THEN Title(label) ELSE "Other"

\* process with the ids assigned after the rows without a price are dropped.
process_renumbered(raw_rows) ==
    LET priced == SelectSeq(raw_rows, LAMBDA raw : clean_prices(raw).sell_price # NaN)
    IN [i \in DOMAIN priced |->
           LET prices == clean_prices(priced[i])
           IN [product_id |-> i - 1,
               mrp |-> prices.MRP,
               sell_price |-> prices.sell_price,
               brand |-> Lower(Strip(priced[i].BrandName)),
               category |-> clean_category(priced[i].Category),
               price_range |-> price_bucket(prices.sell_price)]]

\* DataPreprocessor.process of preprocessor.py, the columns the price, id and
\* category contracts read: every row is cleaned and numbered by its position,
\* and only then are the rows without a sell_price dropped.
process(raw_rows) ==
    LET cleaned == [i \in DOMAIN raw_rows |->
                       LET prices == clean_prices(raw_rows[i])
                       IN [product_id |-> i - 1,
                           mrp |-> prices.MRP,
                           sell_price |-> prices.sell_price,
                           brand |-> Lower(Strip(raw_rows[i].BrandName)),
                           category |-> clean_category(raw_rows[i].Category),
                           price_range |-> price_bucket(prices.sell_price)]]
    IN SelectSeq(cleaned, LAMBDA row : row.sell_price # NaN)

\* CORE_CATEGORIES of ingest_sqlite.py
CORE_CATEGORIES == {"Western Wear", "Indian Wear", "Lingerie & Nightwear", "Footwear"}

\* preprocess of ingest_sqlite.py: the processed rows tagged with is_core
\* (the lower-cased category looked up in CORE_CATEGORIES), sell_price
\* backfilled from mrp once more, rows still without a price dropped.
preprocess(raw_rows) ==
    LET df == process(raw_rows)
        tagged == [i \in DOMAIN df |->
                      [product_id |-> df[i].product_id,
                       mrp |-> df[i].mrp,
                       sell_price |-> IF df[i].sell_price = NaN THEN df[i].mrp
                                      ELSE df[i].sell_price,
                       brand |-> df[i].brand,
                       category |-> df[i].category,
                       price_range |-> df[i].price_range,
                       is_core |-> IF Lower(df[i].category) \in CORE_CATEGORIES THEN 1 ELSE 0]]
    IN SelectSeq(tagged, LAMBDA row : row.sell_price # NaN)

\* ------------------------------------- the normalisation specification
\* A raw row with the given price cells and category.
PriceRow(mrp, sell, cat) ==
    [BrandName |-> "zara", Deatils |-> "silk shirt", Sizes |-> "Size:Small",
     MRP |-> mrp, SellPrice |-> sell, Discount |-> "", Category |-> cat]

\* Raw rows with prices (INR) on both sides of every bucket boundary, with a
\* missing or unparseable cell in either column, and of core and other
\* categories.
PriceRows ==
    {PriceRow(2000, 525, "Westernwear-Women"),
     PriceRow(2000, 526, "Indianwear-Women"),
     PriceRow(NaN, 1578, "Footwear-Women"),
     PriceRow(1579, NaN, "Lingerie&Nightwear-Women"),
     PriceRow(3157, Unparseable, "Watches-Women"),
     PriceRow(Unparseable, 3158, "Westernwear-Women"),
     PriceRow(NaN, NaN, "Footwear-Women"),
     PriceRow(Unparseable, Unparseable, "Watches-Women")}

InitNormalize ==
    /\ preprocessor = NoPreprocessor
    /\ index = NoIndex
    /\ is_ready = FALSE
    /\ disk = NoFile
    /\ last = [op |-> "read_csv", args |-> <<>>, outcome |-> Return(<<>>), changed |-> FALSE]
    /\ saved = NoSaved
    /\ calls = <<>>

\* One more row in the CSV file.
NzAppendRow ==
    /\ last.op = "read_csv"
    /\ Len(last.args) < MaxRawRows
    /\ \E raw \in PriceRows :
        /\ last' = [last EXCEPT !.args = Append(@, raw)]
        /\ UNCHANGED <<preprocessor, index, is_ready, disk, saved, calls>>

\* DataPreprocessor.process_dataset (data_preprocessor.py) on the file.
NzProcessDataset ==
    /\ last.op = "read_csv"
    /\ last' = [op |-> "process_dataset", args |-> last.args,
                outcome |-> clean_price_columns(last.args), changed |-> FALSE]
    /\ UNCHANGED <<preprocessor, index, is_ready, disk, saved, calls>>

\* DataPreprocessor.process (preprocessor.py) on the file.
NzProcess ==
    /\ last.op = "read_csv"
    /\ last' = [op |-> "process", args |-> last.args,
                outcome |-> Return(process(last.args)), changed |-> FALSE]
    /\ UNCHANGED <<preprocessor, index, is_ready, disk, saved, calls>>

\* preprocess (ingest_sqlite.py) on the file.
NzPreprocess ==
    /\ last.op = "read_csv"
    /\ last' = [op |-> "preprocess", args |-> last.args,
                outcome |-> Return(preprocess(last.args)), changed |-> FALSE]
    /\ UNCHANGED <<preprocessor, index, is_ready, disk, saved, calls>>

NextNormalize == NzAppendRow \/ NzProcessDataset \/ NzProcess \/ NzPreprocess

SpecNormalize == InitNormalize /\ [][NextNormalize]_vars

\* ------------------------------------- the concurrent-search specification
\* Two SearchEngine.search calls with non-blank queries run at once on one
\* ready engine (two threads of one process).  Each call is cut at the
\* statements that read or write self.index.products and
\* self.index.tfidf_matrix; what a call does between two such statements
\* touches only its own locals.

\* The engine the calls run on: initialize_from_csv("shop.csv") has returned.
ReadyEngine ==
    initialize_from_csv([preprocessor |-> NoPreprocessor, index |-> NoIndex, is_ready |-> FALSE],
                        CsvFiles, "shop.csv", TRUE).eng

\* The filters of the concurrent calls: none, a price ceiling, a category.
ConcurrentFilters ==
    {NoFilters,
     [NoFilters EXCEPT !.max_price = Number(1000)],
     [NoFilters EXCEPT !.category = "western"]}

ConcurrentTopK == IntK(2)

\* A search call that has passed the is_ready check (search_engine.py 90).
NewCall(query, f) ==
    [pc |-> "filter_products", query |-> query, f |-> f,
     filtered_products |-> <<>>,
     original_products |-> NoFrame,
     original_tfidf_matrix |-> NoMatrix,
     temp_tfidf_matrix |-> NoMatrix,
     similarities |-> <<>>,
     top_indices |-> <<>>,
     outcome |-> Return(<<>>)]

InitConcurrent ==
    /\ preprocessor = ReadyEngine.preprocessor
    /\ index = ReadyEngine.index
    /\ is_ready = ReadyEngine.is_ready
    /\ disk = NoFile
    /\ last = Call("initialize_from_csv", <<"shop.csv", TRUE>>, Return(<<>>), TRUE)
    /\ saved = NoSaved
    /\ calls = <<>>

\* A caller starts a search; at most two are in flight.
CoCall ==
    /\ Len(calls) < 2
    /\ \A t \in DOMAIN calls : calls[t].pc = "filter_products"
    /\ \E f \in ConcurrentFilters :
        /\ calls' = Append(calls, NewCall("silk", f))
        /\ UNCHANGED <<preprocessor, index, is_ready, disk, last, saved>>

\* filtered_products = self.index.filter_products(...); return [] when empty
CoFilterProducts ==
    \E t \in DOMAIN calls :
        /\ calls[t].pc = "filter_products"
        /\ LET filtered == filter_products(index.obj, calls[t].f)
           IN calls' = [calls EXCEPT ![t] =
                 IF filtered.raised THEN [@ EXCEPT !.pc = "done", !.outcome = filtered]
                 ELSE IF Len(filtered.value) = 0
                 THEN [@ EXCEPT !.pc = "done", !.outcome = Return(<<>>)]
                 ELSE [@ EXCEPT !.pc = "save_products", !.filtered_products = filtered.value]]
        /\ UNCHANGED <<preprocessor, index, is_ready, disk, last, saved>>

\* original_products = self.index.products
CoSaveProducts ==
    \E t \in DOMAIN calls :
        /\ calls[t].pc = "save_products"
        /\ calls' = [calls EXCEPT ![t] =
              [@ EXCEPT !.pc = "save_matrix", !.original_products = index.obj.products]]
        /\ UNCHANGED <<preprocessor, index, is_ready, disk, last, saved>>

\* original_tfidf_matrix = self.index.tfidf_matrix, then the transform of the
\* filtered search texts (the vectorizer is not written by any call).
CoSaveMatrix ==
    \E t \in DOMAIN calls :
        /\ calls[t].pc = "save_matrix"
        /\ calls' = [calls EXCEPT ![t] =
              [@ EXCEPT !.pc = "install_products",
                        !.original_tfidf_matrix = index.obj.tfidf_matrix,
                        !.temp_tfidf_matrix =
                            Matrix(Transform(index.obj.tfidf_vectorizer,
                                             SearchTexts(calls[t].filtered_products)))]]
        /\ UNCHANGED <<preprocessor, index, is_ready, disk, last, saved>>

\* self.index.products = filtered_products
CoInstallProducts ==
    \E t \in DOMAIN calls :
        /\ calls[t].pc = "install_products"
        /\ index' = [index EXCEPT !.obj.products = Frame(calls[t].filtered_products)]
        /\ calls' = [calls EXCEPT ![t].pc = "install_matrix"]
        /\ UNCHANGED <<preprocessor, is_ready, disk, last, saved>>

\* self.index.tfidf_matrix = temp_tfidf_matrix
CoInstallMatrix ==
    \E t \in DOMAIN calls :
        /\ calls[t].pc = "install_matrix"
        /\ index' = [index EXCEPT !.obj.tfidf_matrix = calls[t].temp_tfidf_matrix]
        /\ calls' = [calls EXCEPT ![t].pc = "similarities"]
        /\ UNCHANGED <<preprocessor, is_ready, disk, last, saved>>

\* text_search up to top_indices: the similarities of the query against
\* self.tfidf_matrix as it is now, and one argsort outcome.
CoSimilarities ==
    \E t \in DOMAIN calls :
        /\ calls[t].pc = "similarities"
        /\ LET query_vector == TransformOne(index.obj.tfidf_vectorizer, calls[t].query)
               similarities ==
                   [p \in DOMAIN index.obj.tfidf_matrix.rows |->
                       Cosine(query_vector, index.obj.tfidf_matrix.rows[p])]
           IN \E order \in Argsort(similarities) :
                calls' = [calls EXCEPT ![t] =
                    [@ EXCEPT !.pc = "collect",
                              !.similarities = similarities,
                              !.top_indices = Reverse(PySliceLast(order, ConcurrentTopK.n))]]
        /\ UNCHANGED <<preprocessor, index, is_ready, disk, last, saved>>

\* The result loop of text_search: self.products.iloc[idx] on the table as it
\* is now; an index past its end raises IndexError, which leaves search
\* before its restore statements.
CoCollect ==
    \E t \in DOMAIN calls :
        /\ calls[t].pc = "collect"
        /\ LET rows == index.obj.products.rows
               hits == SelectSeq(calls[t].top_indices, LAMBDA p : calls[t].similarities[p] > 0)
           IN calls' = [calls EXCEPT ![t] =
                 IF \E i \in DOMAIN hits : hits[i] > Len(rows)
                 THEN [@ EXCEPT !.pc = "done",
                                !.outcome = Raise("IndexError: single positional indexer is out-of-bounds")]
                 ELSE [@ EXCEPT !.pc = "restore_products",
                                !.outcome = Return([i \in DOMAIN hits |->
                                     [product |-> rows[hits[i]],
                                      similarity_score |-> calls[t].similarities[hits[i]]]])]]
        /\ UNCHANGED <<preprocessor, index, is_ready, disk, last, saved>>

\* self.index.products = original_products
CoRestoreProducts ==
    \E t \in DOMAIN calls :
        /\ calls[t].pc = "restore_products"
        /\ index' = [index EXCEPT !.obj.products = calls[t].original_products]
        /\ calls' = [calls EXCEPT ![t].pc = "restore_matrix"]
        /\ UNCHANGED <<preprocessor, is_ready, disk, last, saved>>

\* self.index.tfidf_matrix = original_tfidf_matrix; return results
CoRestoreMatrix ==
    \E t \in DOMAIN calls :
        /\ calls[t].pc = "restore_matrix"
        /\ index' = [index EXCEPT !.obj.tfidf_matrix = calls[t].original_tfidf_matrix]
        /\ calls' = [calls EXCEPT ![t].pc = "done"]
        /\ UNCHANGED <<preprocessor, is_ready, disk, last, saved>>

NextConcurrent ==
    \/ CoCall
    \/ CoFilterProducts
    \/ CoSaveProducts
    \/ CoSaveMatrix
    \/ CoInstallProducts
    \/ CoInstallMatrix
    \/ CoSimilarities
    \/ CoCollect
    \/ CoRestoreProducts
    \/ CoRestoreMatrix

SpecConcurrent == InitConcurrent /\ [][NextConcurrent]_vars

\* ------------------------------------- the price-keyword specification
\* smart_search on catalogs with products in the mid-range, premium and
\* luxury buckets, asked with each price keyword.

\* The silk shirt (9.50), the silk dress (19.00) and the cotton kurta (9.50)
\* of RawPool, and a silk saree at 38.00.
SmartPool ==
    {r \in RawPool : r.Deatils \in {"silk shirt", "silk dress", "the cotton kurta"}}
    \cup {[BrandName |-> "biba", Deatils |-> "silk saree", Sizes |-> "",
           MRP |-> 4000, SellPrice |-> 4000, Discount |-> "",
           Category |-> "Indianwear-Women"]}

SmartCatalogs == SeqsUpTo(SmartPool, MaxSmartRows)

PriceQueries == {"silk", "premium silk", "luxury silk", "mid silk", "budget silk"}

\* ProductIndex.build_index on a catalog.
SmBuild ==
    /\ index.obj.products.is_none
    /\ \E raw_rows \in SmartCatalogs :
        LET r == build_index(index.obj, process_dataset(raw_rows))
        IN /\ index' = SomeIndex(r.index)
           /\ last' = [op |-> "build_index", args |-> <<raw_rows>>,
                       outcome |-> IF r.error = "" THEN Return(<<>>) ELSE Raise(r.error),
                       changed |-> TRUE]
           /\ UNCHANGED <<preprocessor, is_ready, disk, saved, calls>>

\* SearchEngine.smart_search on the built index.
SmSmartSearch ==
    /\ last.op = "build_index"
    /\ ~last.outcome.raised
    /\ \E query \in PriceQueries :
        \E r \in smart_search(index.obj, query, IntK(2)) :
            /\ index' = SomeIndex(r.index)
            /\ last' = [op |-> "smart_search", args |-> <<query, IntK(2)>>, outcome |-> r.outcome,
                        changed |-> r.index # index.obj]
            /\ UNCHANGED <<preprocessor, is_ready, disk, saved, calls>>

NextSmart == SmBuild \/ SmSmartSearch

SpecSmart == InitIndex /\ [][NextSmart]_vars

\* ------------------------------------------------- index-level claims
\* The result list of the last call and the catalog rows it was made on.
Res == last.outcome.value

Rows == index.obj.products.rows

Returned == {Res[i].product.label : i \in DOMAIN Res}

\* The similarity text_search computes for each row position.
TextScores(ix, query) ==
    [p \in DOMAIN ix.tfidf_matrix.rows |->
        Cosine(TransformOne(ix.tfidf_vectorizer, query), ix.tfidf_matrix.rows[p])]

\* The score the last call ranked each row position by.
RankedScores ==
    IF last.op = "text_search" THEN TextScores(index.obj, last.args[1])
    ELSE CombinedSimilarities(index.obj, Rows,
                              SetMin({p \in DOMAIN Rows : Rows[p].product_id = last.args[1]}))

\* C3 (as stated): the list get_similar_products returns never contains the
\* reference product, whatever top_k is.
C3_ReferenceExcluded ==
    (last.op = "get_similar_products" /\ ~last.outcome.raised)
        => \A i \in DOMAIN Res : Res[i].product.product_id # last.args[1]

HasWord(text, w) == w \in Range(Tokenize(text))

\* Number of documents whose search_text holds the word w.
DocsWith(w) == Cardinality({p \in DOMAIN Rows : HasWord(Rows[p].search_text, w)})

SingleTermQuery ==
    /\ last.op = "text_search"
    /\ ~last.outcome.raised
    /\ Len(Tokenize(last.args[1])) = 1

C5_TopKPositiveRanked ==
    (last.op = "text_search" /\ ~last.outcome.raised)
        => /\ Len(Res) <= last.args[2].n
           /\ \A i \in DOMAIN Res : Res[i].similarity_score > 0
           /\ \A i, j \in DOMAIN Res :
                i < j => Res[i].similarity_score >= Res[j].similarity_score
           /\ \A p \in DOMAIN Rows, i \in DOMAIN Res :
                Rows[p].label \notin Returned => RankedScores[p] <= Res[i].similarity_score
           /\ Range(Analyze(last.args[1])) \cap index.obj.tfidf_vectorizer.vocabulary = {}
                => Res = <<>>

\* C6 (as stated): in the results of text_search and get_similar_products,
\* products with equal score come in ascending row order, and of a tie that
\* spans the top_k cut-off the earlier rows are the ones kept.
C6_TiesInRowOrder ==
    (last.op \in {"text_search", "get_similar_products"} /\ ~last.outcome.raised)
        => /\ \A i, j \in DOMAIN Res :
                (i < j /\ Res[i].similarity_score = Res[j].similarity_score)
                    => Res[i].product.label < Res[j].product.label
           /\ \A p \in DOMAIN Rows, i \in DOMAIN Res :
                (Rows[p].label \notin Returned /\ RankedScores[p] = Res[i].similarity_score)
                    => Rows[p].label > Res[i].product.label

\* The fixed query set of the round trip.
RoundTripQueries == {"silk", "silk shirt", "linen"}

Satisfies(row, f) ==
    /\ f.category # "" => Contains(Lower(row.Category), Lower(f.category))
    /\ f.brand # "" => Contains(Lower(row.BrandName), Lower(f.brand))
    /\ ~f.min_price.is_none =>
          (row.SellPrice_numeric # NaN /\ row.SellPrice_numeric >= f.min_price.v)
    /\ ~f.max_price.is_none =>
          (row.SellPrice_numeric # NaN /\ row.SellPrice_numeric <= f.max_price.v)
    /\ f.material # "" => Contains(Lower(row.material), Lower(f.material))
    /\ f.price_range # "" => row.price_range = f.price_range

\* C11 (as stated): filter_products returns exactly the catalog rows that
\* satisfy every supplied predicate, in catalog order; with no filter supplied
\* that is the whole catalog.
C11_FilterIsConjunctiveSubsequence ==
    (last.op = "filter_products" /\ ~last.outcome.raised /\ last.args[1].size = "")
        => Res = SelectSeq(Rows, LAMBDA row : Satisfies(row, last.args[1]))

\* The requested size equals one of the row's size entries up to letter case.
SizeIsMember(row, size) ==
    \E i \in DOMAIN row.sizes_list : Lower(row.sizes_list[i]) = Lower(size)

\* C12 (as stated): with a size filter alone, filter_products keeps a product
\* if and only if the requested size is a member of its size list.
C12_SizeFilterIsMembership ==
    (/\ last.op = "filter_products"
     /\ ~last.outcome.raised
     /\ last.args[1].size # ""
     /\ [last.args[1] EXCEPT !.size = ""] = NoFilters)
        => Res = SelectSeq(Rows, LAMBDA row : SizeIsMember(row, last.args[1].size))

\* ------------------------------------------------------ search claims
\* A search call with a non-blank query that returned, on an index whose
\* build succeeded.
ScoredSearch ==
    /\ last.op = "search"
    /\ ~last.outcome.raised
    /\ Strip(last.args[1]) # ""
    /\ index.obj.tfidf_vectorizer.state = "fitted"

ContractFiltered(f) ==
    SelectSeq(Rows, LAMBDA row : Satisfies(row, f) /\ (f.size # "" => SizeIsMember(row, f.size)))

\* C14 (as stated): every product search returns satisfies all supplied
\* filters; a blank query returns the first top_k rows of the filtered subset
\* in catalog order; an empty filtered subset returns the empty list.
C14_SearchHonoursFilters ==
    (last.op = "search" /\ ~last.outcome.raised) =>
        LET f == last.args[2]
            blank == Strip(last.args[1]) = ""
        IN /\ \A i \in DOMAIN Res :
                (IF blank THEN Res[i] ELSE Res[i].product) \in Range(ContractFiltered(f))
           /\ blank => Res = PyHead(ContractFiltered(f), last.args[3].n)
           /\ ContractFiltered(f) = <<>> => Res = <<>>

\* The value of the first entry of a keyword table, in the table's order,
\* whose keyword occurs in the text; "" when none occurs.
FirstKeyword(table, text) ==
    LET hit == {i \in DOMAIN table : Contains(text, table[i][1])}
    IN IF hit = {} THEN "" ELSE table[CHOOSE i \in hit : \A j \in hit : i <= j][2]

\* The price-range keywords of smart_search as one table.
PriceKeywords ==
    <<<<"cheap", "budget">>, <<"budget", "budget">>, <<"affordable", "budget">>,
      <<"premium", "luxury">>, <<"expensive", "luxury">>, <<"luxury", "luxury">>,
      <<"mid", "mid-range">>>>

MaterialKeywords == [i \in DOMAIN SmartMaterials |-> <<SmartMaterials[i], SmartMaterials[i]>>]

\* C15: smart_search(query, top_k) returns what search returns with category,
\* price_range and material each taken from the first keyword of its table
\* that occurs in the lower-cased query, and absent when none occurs.
C15_SmartSearchDelegates ==
    last.op = "smart_search" =>
        LET q == Lower(last.args[1])
            f == [NoFilters EXCEPT !.category = FirstKeyword(CategoryKeywords, q),
                                   !.price_range = FirstKeyword(PriceKeywords, q),
                                   !.material = FirstKeyword(MaterialKeywords, q)]
        IN [index |-> index.obj, outcome |-> last.outcome]
              \in search(index.obj, last.args[1], f, last.args[2])

\* C15 witness: a query naming two categories, the later table entry first,
\* found products.
C15_Witness ==
    /\ last.op = "smart_search"
    /\ last.args[1] = "indian western silk"
    /\ ~last.outcome.raised
    /\ Len(Res) > 0

\* ----------------------------------------------------- trending claim
\* C17 (as stated): get_trending_products(limit) returns the limit products
\* with the highest score, in non-increasing score order with ties in row
\* order, nothing left out scoring higher than a returned product, and every
\* score is finite, also for a product whose sell price is 0.
C17_TrendingRankedAndFinite ==
    (last.op = "get_trending_products" /\ ~last.outcome.raised) =>
        /\ Len(Res) = Min2(last.args[1], Len(Rows))
        /\ \A i, j \in DOMAIN Res :
             i < j => /\ ~ScoreGreater(Res[j].trending_score, Res[i].trending_score)
                      /\ ScoreGreater(Res[i].trending_score, Res[j].trending_score)
                           \/ Res[i].product.label < Res[j].product.label
        /\ \A p \in DOMAIN Rows, i \in DOMAIN Res :
             Rows[p].label \notin Returned
                => ~ScoreGreater(TrendingScore(Rows[p]), Res[i].trending_score)
        /\ \A i \in DOMAIN Res : Res[i].trending_score.den # 0

\* --------------------------------------------------- reordering claim
\* A product apart from its position: the row without label and product_id.
Content(row) == [row EXCEPT !.label = 0, !.product_id = 0]

Contents(result) == [i \in DOMAIN result |-> Content(result[i].product)]

\* The two result lists hold the same products, each as often.
SameProducts(a, b) ==
    /\ Len(a) = Len(b)
    /\ \A c \in Range(Contents(a)) \cup Range(Contents(b)) :
         Cardinality({i \in DOMAIN a : Contents(a)[i] = c})
            = Cardinality({i \in DOMAIN b : Contents(b)[i] = c})

\* Both calls of the pair returned.
BothReturned ==
    /\ last.op = "get_similar_products_on_both"
    /\ ~Res[1].raised
    /\ ~Res[2].raised

\* A row left out of the first result has the combined score of a returned one.
TieSpansCutOff ==
    LET first == Res[1].value
        combined == CombinedSimilarities(index.obj, Rows, last.args[1] + 1)
    IN \E p \in DOMAIN Rows, i \in DOMAIN first :
         /\ Rows[p].label \notin {first[j].product.label : j \in DOMAIN first}
         /\ combined[p] = first[i].similarity_score

\* C16 (amended): for two indexes built from the same rows in different
\* positions, a fixed reference row and top_k, get_similar_products returns
\* the same products from both whenever no tie in combined score spans the
\* top_k cut-off.
C16_ReorderKeepsRecommendations ==
    (BothReturned /\ ~TieSpansCutOff) => SameProducts(Res[1].value, Res[2].value)

\* C16 witness: the two orders gave the same products in lists that differ
\* (other ids, other positions), with no tie at the cut-off.
C16_Witness ==
    /\ BothReturned
    /\ ~TieSpansCutOff
    /\ Res[1].value # Res[2].value
    /\ Len(Res[1].value) = 2
    /\ SameProducts(Res[1].value, Res[2].value)

\* C16 (as stated): the two indexes return the same set of products for
\* every reference and top_k.
C16_ReorderKeepsSet ==
    BothReturned => Range(Contents(Res[1].value)) = Range(Contents(Res[2].value))

\* ------------------------------------------- product-type extraction claims
Extracted == last.op = "_extract_product_type"

\* The labels the overlap resolution accepted, each at its first acceptance.
PickedLabels == last.args[2]

FirstAccepted == KeptInOrder(PickedLabels, Range(PickedLabels), {})

NoDuplicates(s) == \A i, j \in DOMAIN s : s[i] = s[j] => i = j

\* Position of label x in list s.
IndexOf(s, x) == CHOOSE i \in DOMAIN s : s[i] = x

\* C18: the returned list has no duplicate labels, lists the kept labels in
\* the order in which the overlap resolution first accepted them, and places
\* every label added by a rule after all kept labels.
C18_OutputOrdered ==
    Extracted =>
        LET first == FirstAccepted
            kept == Range(Res) \cap Range(first)
            added == Range(Res) \ Range(first)
        IN /\ NoDuplicates(Res)
           /\ \A x, y \in kept :
                IndexOf(first, x) < IndexOf(first, y)
                    => IndexOf(Res, x) < IndexOf(Res, y)
           /\ \A x \in kept, y \in added : IndexOf(Res, x) < IndexOf(Res, y)

\* C19 (as stated): kurta with dupatta or choli and a bottom-wear label gives
\* 'salwar suit' and none of the collapsed labels; kurta with a bottom-wear
\* label and neither dupatta nor choli keeps every accepted label and adds
\* 'ethnic set'.
C19_KurtaRuleKeepsAllOriginals ==
    Extracted =>
        LET P == Range(PickedLabels)
            out == Range(Res)
        IN IF "kurta" \in P /\ P \cap bottoms # {}
           THEN IF P \cap {"dupatta", "choli"} # {}
                THEN "salwar suit" \in out
                     /\ out \cap ({"kurta", "dupatta", "choli"} \cup bottoms) = {}
                ELSE P \subseteq out /\ "ethnic set" \in out
           ELSE TRUE

\* The accepted labels the other rules remove: track pants under a tracksuit
\* phrase, jeans under 'denim jacket', generic footwear beside a specific
\* style, pendant beside necklace.
RemovedByOtherRules(words, P) ==
    LET t == PaddedText(words)
    IN (P \ TracksuitRule(t, P)) \cup (P \ DenimJacketGuard(t, P))
        \cup (P \ FootwearRule(P)) \cup (P \ JewelryRule(P))

\* C19 (amended): as C19, but in the ethnic-set case the output keeps every
\* accepted label except those the other four rules remove.
C19_KurtaRule ==
    Extracted =>
        LET P == Range(PickedLabels)
            out == Range(Res)
        IN IF "kurta" \in P /\ P \cap bottoms # {}
           THEN IF P \cap {"dupatta", "choli"} # {}
                THEN "salwar suit" \in out
                     /\ out \cap ({"kurta", "dupatta", "choli"} \cup bottoms) = {}
                ELSE out = (P \ RemovedByOtherRules(last.args[1], P)) \cup {"ethnic set"}
           ELSE TRUE

\* C19 witness: both cases happened, the second with a label removed by
\* another rule.
C19_Witness ==
    /\ Extracted
    /\ LET P == Range(PickedLabels)
       IN /\ {"kurta", "palazzo", "heels", "flats"} \subseteq P
          /\ "dupatta" \notin P
          /\ "ethnic set" \in Range(Res)
          /\ "flats" \notin Range(Res)

C19_WitnessCollapse ==
    /\ Extracted
    /\ {"kurta", "dupatta", "palazzo"} \subseteq Range(PickedLabels)
    /\ Res = <<"salwar suit">>

\* C20: no returned list holds both a specific footwear style and one of the
\* generic labels slip-ons, shoes, flats.
C20_SpecificFootwearDropsGeneric ==
    Extracted => ~(Range(Res) \cap specific # {} /\ Range(Res) \cap generic # {})

\* C20 witness: heels and flats were both accepted, and the output has heels
\* without flats.
C20_Witness ==
    /\ Extracted
    /\ {"heels", "flats"} \subseteq Range(PickedLabels)
    /\ "heels" \in Range(Res)
    /\ "flats" \notin Range(Res)

\* The text holds the phrase 'denim jacket'.
DenimJacketPhrase(words) ==
    \E i \in 1..(Len(words) - 1) : words[i] = "denim" /\ Bare(words[i + 1]) = "jacket"

\* C21: if the text contains the phrase 'denim jacket', the output contains
\* 'jacket' and does not contain 'jeans', also when the word 'jeans' occurs
\* elsewhere in the text.
C21_DenimJacketDropsJeans ==
    (Extracted /\ DenimJacketPhrase(last.args[1]))
        => ("jacket" \in Range(Res) /\ "jeans" \notin Range(Res))

\* ------------------------------------------------ overlap resolution claim
\* x comes before y in the order longest match first, then earliest start,
\* then canonical name.
ComesBefore(x, y) ==
    LET lx == x.b - x.a
        ly == y.b - y.a
    IN \/ lx > ly
       \/ lx = ly /\ x.a < y.a
       \/ lx = ly /\ x.a = y.a /\ StrLess(x.canon, y.canon)

\* The spans of x and y share a character.
SharesCharacter(x, y) == \E c \in x.a..(x.b - 1) : c \in y.a..(y.b - 1)

\* C25: no two accepted matches have overlapping spans, and every discarded
\* candidate overlaps an accepted candidate that comes before it in the order
\* longest match first, then earliest start, then canonical name.
C25_GreedyOverlapResolution ==
    Extracted =>
        LET candidates == last.args[3]
            accepted == Range(last.args[4])
        IN /\ accepted \subseteq candidates
           /\ Len(PickedLabels) = Len(last.args[4])
           /\ \A i \in DOMAIN PickedLabels : last.args[4][i].canon = PickedLabels[i]
           /\ \A x, y \in accepted : x # y => ~SharesCharacter(x, y)
           /\ \A c \in candidates \ accepted :
                \E x \in accepted : SharesCharacter(c, x) /\ ComesBefore(x, c)

\* C25 witness: two canonicals matched the identical span and the one whose
\* name sorts first was accepted, the other discarded.
C25_Witness ==
    /\ Extracted
    /\ last.args[1] = <<"denim", "jacket", "oxford">>
    /\ PickedLabels = <<"jacket", "brogues">>
    /\ \E c \in last.args[3] : c.canon = "shirt"
    /\ \E c \in last.args[3] : c.canon = "jeans"

\* ------------------------------------------------------- rule-pass claim
\* All five rules of the current pass have been applied.
PassDone == last.op = "_post_rules" /\ Res.applied = RuleNames

\* C26: the label set the five rules produce is the same for every order in
\* which they are applied (it is the one the code's order gives), for every
\* input label set and text, and a second pass over the result changes nothing.
C26_RulesCommuteAndIdempotent ==
    PassDone => Res.L = RuledLabels(PaddedText(last.args[1]), last.args[2])

\* C26 witness: a second pass ended with the tracksuit rule (the first rule of
\* the code's order) applied last, on labels that three of the rules changed.
C26_Witness ==
    /\ PassDone
    /\ Res.pass = 2
    /\ Res.last_rule = "tracksuit"
    /\ last.args[1] = <<"tracksuit">>
    /\ last.args[2] = {"kurta", "palazzo", "heels", "flats"}
    /\ Res.L = {"kurta", "palazzo", "heels", "ethnic set", "tracksuit"}

\* ------------------------------------------------- normalisation claims
\* A normalising call has returned its catalog.
Normalized == last.op \in {"process_dataset", "process", "preprocess"} /\ ~last.outcome.raised

\* The sell price and list price of a row of the normalized catalog (the
\* columns are SellPrice_numeric / MRP_numeric in data_preprocessor.py and
\* sell_price / mrp in preprocessor.py).
SellPriceOf(row) == IF last.op = "process_dataset" THEN row.SellPrice_numeric ELSE row.sell_price

ListPriceOf(row) == IF last.op = "process_dataset" THEN row.MRP_numeric ELSE row.mrp

\* The raw row a catalog row was made from.
RawOf(row) == last.args[row.product_id + 1]

Parseable(cell) == cell \notin {NaN, Unparseable}

\* The contract's sell price of a raw row: its own converted price, else the
\* converted list price, else none.
ContractSellPrice(raw) ==
    IF Parseable(raw.SellPrice) THEN RoundDiv(raw.SellPrice * RatePer100, 100)
    ELSE IF Parseable(raw.MRP) THEN RoundDiv(raw.MRP * RatePer100, 100)
    ELSE NaN

\* C22: every build of the normalized catalog finishes (no raw price cell
\* aborts it), every retained row has a sell price, which is the row's own
\* converted price or, when that is missing or unparseable, its converted
\* list price, and exactly the rows with neither are left out.
C22_RetainedRowsHaveSellPrice ==
    last.op \in {"process_dataset", "process", "preprocess"} =>
        /\ ~last.outcome.raised
        /\ \A i \in DOMAIN Res :
            /\ SellPriceOf(Res[i]) # NaN
            /\ SellPriceOf(Res[i]) = ContractSellPrice(RawOf(Res[i]))
        /\ {Res[i].product_id : i \in DOMAIN Res}
             = {p - 1 : p \in {q \in DOMAIN last.args : ContractSellPrice(last.args[q]) # NaN}}

\* The part of C22 that preprocessor.py (process and the ingest on top of
\* it) does satisfy.
C22_ProcessBackfillsAndDrops ==
    last.op \in {"process", "preprocess"} =>
        /\ ~last.outcome.raised
        /\ \A i \in DOMAIN Res : SellPriceOf(Res[i]) = ContractSellPrice(RawOf(Res[i]))
        /\ {Res[i].product_id : i \in DOMAIN Res}
             = {p - 1 : p \in {q \in DOMAIN last.args : ContractSellPrice(last.args[q]) # NaN}}

\* C23: the price_range of every retained row is the bucket of its final
\* sell price: budget below 5.00, mid-range from 5.00 to 14.99, premium from
\* 15.00 to 29.99, luxury from 30.00, and unknown exactly when the sell price
\* is missing.
C23_PriceRangeIsBucketOfSellPrice ==
    Normalized =>
        \A i \in DOMAIN Res :
            LET price == SellPriceOf(Res[i])
                range == Res[i].price_range
            IN /\ (range = "unknown") <=> (price = NaN)
               /\ price # NaN =>
                    /\ (range = "budget") <=> (price < 500)
                    /\ (range = "mid-range") <=> (500 <= price /\ price < 1500)
                    /\ (range = "premium") <=> (1500 <= price /\ price < 3000)
                    /\ (range = "luxury") <=> (3000 <= price)

\* A catalog of preprocessor.py with a row priced exactly 5.00 (mid-range)
\* and a row whose sell price was backfilled to exactly 15.00 (premium).
C23_Witness ==
    /\ last.op = "process"
    /\ \E i \in DOMAIN Res : Res[i].sell_price = 500 /\ Res[i].price_range = "mid-range"
    /\ \E i \in DOMAIN Res :
        /\ RawOf(Res[i]).SellPrice = NaN
        /\ Res[i].sell_price = 1500
        /\ Res[i].price_range = "premium"

\* A catalog of data_preprocessor.py with a row in the budget bucket at 4.99
\* and a row without a sell price labelled unknown.
C23_WitnessUnknown ==
    /\ last.op = "process_dataset"
    /\ Normalized
    /\ \E i \in DOMAIN Res : Res[i].SellPrice_numeric = 499 /\ Res[i].price_range = "budget"
    /\ \E i \in DOMAIN Res : Res[i].SellPrice_numeric = NaN /\ Res[i].price_range = "unknown"

\* C24: the product_ids of the normalized catalog are raw row positions
\* (counted from 0) in increasing order, hence pairwise distinct, and each
\* row carries the list price of the raw row at that position; leaving rows
\* out does not move the ids of the others.
C24_ProductIdIsRawPosition ==
    Normalized =>
        /\ \A i \in DOMAIN Res :
            /\ Res[i].product_id + 1 \in DOMAIN last.args
            /\ ListPriceOf(Res[i]) = ConvertPrice(to_numeric(RawOf(Res[i]).MRP))
            /\ SellPriceOf(Res[i]) \in {ConvertPrice(to_numeric(RawOf(Res[i]).SellPrice)),
                                        ConvertPrice(to_numeric(RawOf(Res[i]).MRP))}
        /\ \A i, j \in DOMAIN Res : i < j => Res[i].product_id < Res[j].product_id
        /\ last.op = "process_dataset" => Len(Res) = Len(last.args)
        /\ last.op # "process_dataset" =>
             {Res[i].product_id + 1 : i \in DOMAIN Res}
               = {q \in DOMAIN last.args : ContractSellPrice(last.args[q]) # NaN}

\* The first raw row has no price and is left out; the row after it keeps
\* product_id 1 and the last row product_id 2.
C24_Witness ==
    /\ last.op = "process"
    /\ Len(last.args) = 3
    /\ ContractSellPrice(last.args[1]) = NaN
    /\ Len(Res) = 2
    /\ Res[1].product_id = 1
    /\ Res[2].product_id = 2

\* C30: the ingest tags a product with is_core = 1 exactly when its category
\* is Western Wear, Indian Wear, Lingerie & Nightwear or Footwear, with 0
\* otherwise, and keeps every row of the processed catalog.
C30_IsCoreIffCoreCategory ==
    last.op = "preprocess" =>
        /\ \A i \in DOMAIN Res :
            /\ Res[i].is_core \in {0, 1}
            /\ (Res[i].is_core = 1) <=>
                 (Res[i].category \in {"Western Wear", "Indian Wear",
                                       "Lingerie & Nightwear", "Footwear"})
        /\ Len(Res) = Len(process(last.args))

\* The parts of C30 the ingest does satisfy: the flag is 0 or 1, it is never
\* set for a category outside the core list, and tagging drops no row.
C30_NoRowDroppedForFlag ==
    last.op = "preprocess" =>
        /\ \A i \in DOMAIN Res :
            /\ Res[i].is_core \in {0, 1}
            /\ Res[i].is_core = 1 =>
                 (Res[i].category \in {"Western Wear", "Indian Wear",
                                       "Lingerie & Nightwear", "Footwear"})
        /\ Len(Res) = Len(process(last.args))

\* The flag the ingest computes is 0 on every row.
C30_IsCoreNeverSet ==
    last.op = "preprocess" => \A i \in DOMAIN Res : Res[i].is_core = 0

\* ---------------------------------------------------------- readiness claim
\* The engine's index holds a product table, a fitted vectorizer and a term
\* matrix.
IndexComplete ==
    /\ ~index.is_none
    /\ ~index.obj.products.is_none
    /\ index.obj.tfidf_vectorizer.state = "fitted"
    /\ ~index.obj.tfidf_matrix.is_none

\* C27: in every reachable state of the engine, is_ready implies that the
\* index holds a product table, a fitted vectorizer and a term matrix.
C27_ReadyImpliesCompleteIndex == is_ready => IndexComplete

\* What is_ready does guarantee: an index object exists.
C27_ReadyImpliesIndexObject == is_ready => ~index.is_none

\* initialize_from_csv with rebuild_index = False has returned normally and
\* left a ready engine around an empty index.
C27_ReadyWithoutBuild ==
    /\ last.op = "initialize_from_csv"
    /\ last.args[2] = FALSE
    /\ ~last.outcome.raised
    /\ is_ready
    /\ index.obj.products.is_none

\* A load on an engine that was ready has failed and left it ready around
\* an index that is not complete.
C27_ReadyAfterFailedLoad ==
    /\ last.op = "load_from_saved_index"
    /\ last.outcome.raised
    /\ is_ready
    /\ ~IndexComplete

\* ----------------------------------------------------- concurrency claim
\* Both concurrent calls have returned a result list.
BothCallsReturned ==
    /\ Len(calls) = 2
    /\ \A t \in DOMAIN calls : calls[t].pc = "done" /\ ~calls[t].outcome.raised

\* The labels of the rows the filters of call t select from the built table.
OwnSubset(t) ==
    {row.label : row \in Range(filter_products(ReadyEngine.index.obj, calls[t].f).value)}

\* C28: once two concurrent search calls with non-blank queries have both
\* returned, the index holds the product table and term matrix the build
\* installed, and each call's results are products of its own filtered
\* subset.
C28_ConcurrentSearchesIsolated ==
    BothCallsReturned =>
        /\ index.obj.products = ReadyEngine.index.obj.products
        /\ index.obj.tfidf_matrix = ReadyEngine.index.obj.tfidf_matrix
        /\ \A t \in DOMAIN calls :
             \A i \in DOMAIN calls[t].outcome.value :
                 calls[t].outcome.value[i].product.label \in OwnSubset(t)

\* The same for one call running alone, which does hold.
C28_SingleSearchRestores ==
    (Len(calls) = 1 /\ calls[1].pc = "done" /\ ~calls[1].outcome.raised) =>
        /\ index.obj.products = ReadyEngine.index.obj.products
        /\ index.obj.tfidf_matrix = ReadyEngine.index.obj.tfidf_matrix
        /\ \A i \in DOMAIN calls[1].outcome.value :
               calls[1].outcome.value[i].product.label \in OwnSubset(1)

\* Both calls have returned and the index still holds a filtered table.
C28_FilteredTableLeftInstalled ==
    /\ BothCallsReturned
    /\ index.obj.products # ReadyEngine.index.obj.products

\* Both calls have returned and one of them returned a product outside its
\* own filtered subset.
C28_ForeignProductReturned ==
    /\ BothCallsReturned
    /\ \E t \in DOMAIN calls :
         \E i \in DOMAIN calls[t].outcome.value :
             calls[t].outcome.value[i].product.label \notin OwnSubset(t)

\* One of two concurrent calls has raised out of text_search.
C28_ConcurrentCallRaised ==
    /\ Len(calls) = 2
    /\ \E t \in DOMAIN calls : calls[t].pc = "done" /\ calls[t].outcome.raised

\* ---------------------------------------------------- price-keyword claim
\* The price keywords of a query and the bucket each one names.
BucketKeywords ==
    <<<<"cheap", "budget">>, <<"budget", "budget">>, <<"affordable", "budget">>,
      <<"premium", "premium">>, <<"luxury", "luxury">>, <<"mid", "mid-range">>>>

\* The buckets named by the keywords that occur in a query.
NamedBuckets(query) ==
    {BucketKeywords[i][2] : i \in {j \in DOMAIN BucketKeywords :
                                      Contains(Lower(query), BucketKeywords[j][1])}}

\* C29: a smart_search whose query holds 'premium' and none of 'cheap',
\* 'budget', 'affordable' returns only products labelled premium; a query
\* whose price keywords name one bucket returns only products of that bucket.
C29_PriceKeywordNamesBucket ==
    (last.op = "smart_search" /\ ~last.outcome.raised) =>
        /\ ("premium" \in NamedBuckets(last.args[1]) /\ "budget" \notin NamedBuckets(last.args[1])) =>
              \A i \in DOMAIN Res : Res[i].product.price_range = "premium"
        /\ \A bucket \in NamedBuckets(last.args[1]) :
              NamedBuckets(last.args[1]) = {bucket} =>
                  \A i \in DOMAIN Res : Res[i].product.price_range = bucket

\* What holds for 'premium': the filter is the luxury bucket.
C29_PremiumFiltersLuxury ==
    (last.op = "smart_search" /\ ~last.outcome.raised /\ last.args[1] = "premium silk") =>
        \A i \in DOMAIN Res : Res[i].product.price_range = "luxury"

\* The other keywords do name their bucket.
C29_OtherKeywordsNameBucket ==
    (last.op = "smart_search" /\ ~last.outcome.raised /\ "premium" \notin NamedBuckets(last.args[1])) =>
        \A bucket \in NamedBuckets(last.args[1]) :
            NamedBuckets(last.args[1]) = {bucket} =>
                \A i \in DOMAIN Res : Res[i].product.price_range = bucket

\* 'premium silk' on a catalog with the premium silk dress has returned the
\* luxury silk saree and not the dress.
C29_PremiumQueryReturnsLuxury ==
    /\ last.op = "smart_search"
    /\ last.args[1] = "premium silk"
    /\ \E p \in DOMAIN index.obj.products.rows :
          index.obj.products.rows[p].price_range = "premium"
    /\ Len(Res) > 0
    /\ \A i \in DOMAIN Res : Res[i].product.price_range = "luxury"

====
